---------------------------- MODULE Spec2Model ----------------------------
(***************************************************************************)
(* PowerPulse: the /api/energy row shaping, the hourly usage loader, the   *)
(* device classifier of getDevices, the coach chat and its proxy, and the  *)
(* fetch effects of the dashboard sections, the device modal and the       *)
(* sign-up form.                                                           *)
(*                                                                         *)
(* JavaScript strings are tuples of one-character strings, so that trim,   *)
(* split and Number() are computed on the characters.  JavaScript numbers  *)
(* are fixed-point integers in units of 1/Scale, or NaN.                   *)
(***************************************************************************)
EXTENDS Integers, Sequences, FiniteSets, TLC

VARIABLES
    csv,        \* rows of the CSV file as d3-dsv parses them (raw columns)
    fsOk,       \* whether fs.readFile of the CSV file succeeds
    energyReq,  \* last GET /api/energy request: [homeId, appliance] or NoCall
    shaped,     \* rows.map(...) of the last GET, before filtering
    energyResp, \* response of the last GET: [status, body]
    usageCall,  \* arguments of the last loadDailyUsageByHour call, or NoCall
    usageAll,   \* `all` of that call (the fetched JSON)
    usageTarget,\* `targetDate` of that call
    series,     \* the 24 points that call returned
    now,        \* Date.now(), in milliseconds
    backend,    \* GET /homes/:id/devices: [ok, devices]
    devCall,    \* outcome of the last getDevices call: [now, raw, threw] or NoCall
    devices,    \* the Device[] the last getDevices call returned
    impl,       \* which CoachSection source is deployed
    coachHome,  \* the homeId prop of CoachSection
    messages,   \* CoachSection state: messages
    draft,      \* CoachSection state: draft
    isThinking, \* CoachSection state: isThinking
    inflight,   \* requests to the responder that have not settled
    sent,       \* the request last sent to the responder and not yet settled, with the history it was built from
    chatResult, \* how the last chat send settled: [via, outcome, threw, value] or NoCall
    proxyCall,  \* last POST to the coach proxy: [body, backend] or NoCall
    proxyResp,  \* what that POST produced: [threw, status, body] or NoCall
    tariffRun,  \* the dashboard outputs for csv and for csv with one tariff changed, or NoCall
    versions,   \* the contents the CSV file has had, the current one last
    reqs,       \* the dashboard requests in progress: [pc, homeId, since, text, result]
    dailyHistory, \* the daily totals of the past days of a home: day -> [kwh, cost]
    forecastUi, \* ForecastSection state: [raw, loading, error, activeTab]
    nowUi,      \* NowSection state: [metrics, loading, error]
    nowFetch,   \* fetchMetrics calls: [pending, last, lastOk]
    secUi,      \* DevicesSection: [homeId, devices, loading, error]
    secFetches, \* the runs of its fetch effect: [homeId, ignore, state]
    secAdded,   \* the devices handleAddDevice added since homeId last changed
    modalUi,    \* DeviceDetailsModal: [open, device, stats, loading]
    modalFetches, \* the runs of its effect that fetch: [device, ignore, state]
    nowRuns,    \* the fetchMetrics calls of NowSection in the order of their issue: [state, data]
    nowMounted, \* whether NowSection is mounted
    signup      \* SignUpForm: its state, the await it is at, and what has been done

energyVars == <<csv, fsOk, energyReq, shaped, energyResp, usageCall, usageAll, usageTarget, series>>
deviceVars == <<now, backend, devCall, devices>>
coachVars  == <<impl, coachHome, messages, draft, isThinking, inflight, sent, chatResult>>
proxyVars  == <<proxyCall, proxyResp>>
tariffVars == <<tariffRun>>
refreshVars == <<versions, reqs>>
forecastVars == <<dailyHistory, forecastUi>>
nowVars    == <<nowUi, nowFetch>>
uiVars     == <<secUi, secFetches, secAdded, modalUi, modalFetches, nowRuns, nowMounted, signup>>
vars       == <<energyVars, deviceVars, coachVars, proxyVars, tariffVars, refreshVars, forecastVars, nowVars, uiVars>>

(***************************************************************************)
(* JavaScript values                                                       *)
(***************************************************************************)
\* `undefined` and `null`: tuples no string of characters equals.
Undefined == <<"#undefined">>
Null      == <<"#null">>
\* No request is being answered.
NoCall    == [none |-> TRUE]

\* Fixed-point unit: a number n stands for n / Scale.
Scale == 10 * 1000

NaN    == [t |-> "nan", v |-> 0]
Num(n) == [t |-> "num", v |-> n]

Digits == <<"0", "1", "2", "3", "4", "5", "6", "7", "8", "9">>
IsDigit(c) == \E i \in 1..10 : Digits[i] = c
DigitVal(c) == (CHOOSE i \in 1..10 : Digits[i] = c) - 1
AllDigits(s) == \A i \in 1..Len(s) : IsDigit(s[i])

RECURSIVE IntVal(_)
IntVal(s) == IF s = <<>> THEN 0
             ELSE IntVal(SubSeq(s, 1, Len(s) - 1)) * 10 + DigitVal(s[Len(s)])

\* Digits after the decimal point, the first one worth w.
RECURSIVE FracVal(_, _)
FracVal(s, w) == IF s = <<>> \/ w = 0 THEN 0
                 ELSE DigitVal(Head(s)) * w + FracVal(Tail(s), w \div 10)

\* String.prototype.trim
RECURSIVE TrimLeft(_)
TrimLeft(s) == IF s # <<>> /\ Head(s) = " " THEN TrimLeft(Tail(s)) ELSE s
RECURSIVE TrimRight(_)
TrimRight(s) == IF s # <<>> /\ s[Len(s)] = " " THEN TrimRight(SubSeq(s, 1, Len(s) - 1)) ELSE s
Trim(s) == TrimRight(TrimLeft(s))

\* Index of the first occurrence of c in s, or Len(s) + 1.
RECURSIVE IndexOf(_, _)
IndexOf(s, c) == IF s = <<>> THEN 1
                 ELSE IF Head(s) = c THEN 1
                 ELSE 1 + IndexOf(Tail(s), c)

\* s.split(c)[0]
SplitFirst(s, c) == SubSeq(s, 1, IndexOf(s, c) - 1)
\* s.split(c) for the rest after the first piece
SplitRest(s, c) == IF IndexOf(s, c) > Len(s) THEN <<>> ELSE SubSeq(s, IndexOf(s, c) + 1, Len(s))

\* Number(string): whitespace is trimmed, the empty string is 0, a decimal
\* literal [-]digits[.digits] is its value, anything else is NaN.
UnsignedToNumber(u) ==
    LET ip == SplitFirst(u, ".")
        fp == SplitRest(u, ".")
    IN  IF /\ AllDigits(ip) /\ AllDigits(fp)
           /\ (ip # <<>> \/ fp # <<>>)
        THEN Num(IntVal(ip) * Scale + FracVal(fp, Scale \div 10))
        ELSE NaN

StringToNumber(s) ==
    LET t == Trim(s)
    IN  IF t = <<>> THEN Num(0)
        ELSE IF Head(t) = "-"
             THEN LET u == UnsignedToNumber(Tail(t))
                  IN  IF u.t = "nan" THEN NaN ELSE Num(0 - u.v)
             ELSE UnsignedToNumber(t)

\* Number(x) for x a string or the number 0 of `?? 0`
ToNumber(x) == IF x = Undefined THEN Num(0) ELSE StringToNumber(x)

\* String(x ?? "").trim()
ToTrimmedString(x) == IF x = Undefined THEN <<>> ELSE Trim(x)

\* a ?? b
Coalesce(a, b) == IF a = Undefined \/ a = Null THEN b ELSE a

\* JSON.stringify then JSON.parse of a number: NaN becomes null.
JsonNumber(x) == IF x.t = "nan" THEN [t |-> "null", v |-> 0] ELSE x


(***************************************************************************)
(* The CSV file and GET /api/energy                                        *)
(***************************************************************************)
\* Largest number of data rows of the CSV file.
MaxRows == 2

\* Column names of the CSV header that the route reads.
ColHome == "Home ID"
ColDate == "Date"
ColTime == "Time"
ColAppliance == "Appliance Type"
ColKwh == "Energy Consumption (kWh)"
ColTou == "TOU Period"
ColTouAlias == "TOU period"
ColTariff == "Tariff ($/kWh)"
ColTariffAlias == "Tariff"
ColOutC == "Outdoor Temperature (C)"
ColOutCAlias == "Outdoor Temperature (mangled degree C)"
ColInC == "Indoor Temperature (C)"

\* The field of a data line that each column name carries.
FieldOf(col) ==
    CASE col = ColHome -> "home"
      [] col = ColDate -> "date"
      [] col = ColTime -> "time"
      [] col = ColAppliance -> "appliance"
      [] col = ColKwh -> "kwh"
      [] col \in {ColTou, ColTouAlias} -> "tou"
      [] col \in {ColTariff, ColTariffAlias} -> "tariff"
      [] col \in {ColOutC, ColOutCAlias} -> "outC"
      [] col = ColInC -> "inC"

\* Headers a file may have: the canonical one, one with the aliased
\* spellings, and one that lacks the optional columns.
Headers == {
    {ColHome, ColDate, ColTime, ColAppliance, ColKwh, ColTou, ColTariff, ColOutC, ColInC},
    {ColHome, ColDate, ColTime, ColAppliance, ColKwh, ColTouAlias, ColTariffAlias, ColOutCAlias, ColInC},
    {ColHome, ColDate, ColTime} }

Line(home, date, time, appliance, kwh, tou, tariff, outC, inC) ==
    [home |-> home, date |-> date, time |-> time, appliance |-> appliance, kwh |-> kwh,
     tou |-> tou, tariff |-> tariff, outC |-> outC, inC |-> inC]

Home1 == <<"1">>
Home2Padded == <<" ", "2", " ">>
Home2 == <<"2">>
Home3 == <<"3">>
Date1 == <<"6", "/", "1", "5", "/", "2", "3">>
Date2 == <<"1", "0", "/", "2", "/", "2", "3">>
DateNoRow == <<"1", "/", "1", "/", "2", "0">>
Fridge == <<"F", "r", "i", "d", "g", "e">>
AC == <<"A", "C">>
ACPadded == <<" ", "A", "C">>

\* Data lines the file is made of.
Lines == {
    Line(Home1, Date1, <<"0", "6", ":", "0", "0">>, Fridge, <<"1", ".", "0">>, <<"O", "f", "f">>, <<"0", ".", "1", "0">>, <<"2", "0">>, <<"2", "1">>),
    Line(Home1, Date1, <<"0", "6", ":", "3", "0">>, Fridge, <<"0", ".", "5">>, <<"O", "f", "f">>, <<"0", ".", "1", "0">>, <<"2", "0">>, <<"2", "1">>),
    Line(Home1, Date1, <<"1", "8", ":", "0", "0">>, AC, <<"2", ".", "0">>, <<"P", "e", "a", "k">>, <<"0", ".", "3", "0">>, <<"2", "5">>, <<"2", "2">>),
    Line(Home1, Date1, <<"2", "5", ":", "0", "0">>, AC, <<"1", ".", "0">>, <<"P", "e", "a", "k">>, <<"0", ".", "3", "0">>, <<"-", "3", ".", "5">>, <<"2", "2">>),
    Line(Home1, Date1, <<"6", ".", "5", ":", "0", "0">>, AC, <<"1", ".", "0">>, <<"P", "e", "a", "k">>, <<"0", ".", "3", "0">>, <<"2", "5">>, <<"2", "2">>),
    Line(Home1, Date1, <<>>, Fridge, <<"a", "b", "c">>, <<>>, <<"n", "/", "a">>, <<>>, <<" ", "2", "1", " ">>),
    Line(Home2Padded, Date2, <<"2", "3", ":", "5", "9">>, ACPadded, <<"0", ".", "0", "0", "0", "4">>, <<" ", "O", "f", "f", " ">>, <<"0", ".", "1", "0">>, <<"2", "0">>, <<"2", "1">>),
    Line(Home1, Date2, <<"-", "1", ":", "0", "0">>, Fridge, <<"0", ".", "0", "0", "0", "4">>, <<"O", "f", "f">>, <<"0", ".", "1", "0">>, <<"2", "0">>, <<"2", "1">>),
    Line(Home1, <<>>, <<"0", "6", ":", "0", "0">>, Fridge, <<"1", ".", "0">>, <<"O", "f", "f">>, <<"0", ".", "1", "0">>, <<"2", "0">>, <<"2", "1">>),
    Line(<<>>, <<>>, <<>>, <<>>, <<>>, <<>>, <<>>, <<>>, <<>>) }

RECURSIVE SeqsUpTo(_, _)
SeqsUpTo(S, n) == IF n = 0 THEN {<<>>}
                  ELSE LET shorter == SeqsUpTo(S, n - 1)
                       IN  shorter \cup {Append(q, x) : q \in shorter, x \in S}

CsvFiles == [header : Headers, rows : SeqsUpTo(Lines, MaxRows)]

\* r[col] of a row object that csvParse built: the text of the column when
\* the header has it, undefined otherwise.
Raw(header, line, col) == IF col \in header THEN line[FieldOf(col)] ELSE Undefined

\* The object literal of rows.map(...)
ShapeRow(header, line) ==
    [homeId    |-> ToTrimmedString(Coalesce(Raw(header, line, ColHome), <<>>)),
     date      |-> ToTrimmedString(Coalesce(Raw(header, line, ColDate), <<>>)),
     time      |-> ToTrimmedString(Coalesce(Raw(header, line, ColTime), <<>>)),
     appliance |-> ToTrimmedString(Coalesce(Raw(header, line, ColAppliance), <<>>)),
     kwh       |-> ToNumber(Raw(header, line, ColKwh)),
     tou       |-> ToTrimmedString(Coalesce(Coalesce(Raw(header, line, ColTou),
                                                     Raw(header, line, ColTouAlias)), <<>>)),
     tariff    |-> ToNumber(Coalesce(Raw(header, line, ColTariff), Raw(header, line, ColTariffAlias))),
     outC      |-> ToNumber(Coalesce(Raw(header, line, ColOutC), Raw(header, line, ColOutCAlias))),
     inC       |-> ToNumber(Raw(header, line, ColInC))]

\* A shaping that gives up on a row with a malformed number
ShapeRowsSkipMalformed(file) ==
    LET Clean(r) == r.kwh.t = "num" /\ r.tariff.t = "num" /\ r.outC.t = "num" /\ r.inC.t = "num"
    IN  SelectSeq([i \in 1..Len(file.rows) |-> ShapeRow(file.header, file.rows[i])], Clean)

\* rows.map(...)
ShapeRows(file) == [i \in 1..Len(file.rows) |-> ShapeRow(file.header, file.rows[i])]

\* A query parameter is given when searchParams.get returns a non-empty string.
Given(param) == param # Null /\ param # <<>>

\* A filter that drops the appliance parameter when a home is given
FilterRowsByHomeFirst(rows, homeId, appliance) ==
    LET HomeOk(r) == r.homeId = homeId
        ApplOk(r) == r.appliance = appliance
    IN  IF Given(homeId) THEN SelectSeq(rows, HomeOk)
        ELSE IF Given(appliance) THEN SelectSeq(rows, ApplOk) ELSE rows

\* let filtered = shaped; if (homeId) ...; if (appliance) ...
FilterRows(rows, homeId, appliance) ==
    LET HomeOk(r) == r.homeId = homeId
        ApplOk(r) == r.appliance = appliance
        byHome == IF Given(homeId) THEN SelectSeq(rows, HomeOk) ELSE rows
    IN  IF Given(appliance) THEN SelectSeq(byHome, ApplOk) ELSE byHome

\* NextResponse.json(filtered), as the client parses it
JsonRow(r) == [homeId |-> r.homeId, date |-> r.date, time |-> r.time,
               appliance |-> r.appliance, kwh |-> JsonNumber(r.kwh), tou |-> r.tou,
               tariff |-> JsonNumber(r.tariff), outC |-> JsonNumber(r.outC),
               inC |-> JsonNumber(r.inC)]
JsonRows(rows) == [i \in 1..Len(rows) |-> JsonRow(rows[i])]

\* The whole GET handler: [shaped, resp]
EnergyGET(file, readOk, homeId, appliance) ==
    IF readOk
    THEN LET sh == ShapeRows(file)
         IN  [shaped |-> sh,
              resp |-> [status |-> 200, isArray |-> TRUE,
                        rows |-> JsonRows(FilterRows(sh, homeId, appliance))]]
    ELSE [shaped |-> <<>>,
          resp |-> [status |-> 500, isArray |-> FALSE, rows |-> <<>>]]


(***************************************************************************)
(* loadDailyUsageByHour                                                    *)
(***************************************************************************)
Min(a, b) == IF a < b THEN a ELSE b
Max(a, b) == IF a > b THEN a ELSE b

\* hourFromTime: Math.min(23, Math.max(0, Number(hStr) || 0)), in 1/Scale
hourFromTime(t) ==
    LET hStr == SplitFirst(t, ":")
        n == StringToNumber(hStr)
        orZero == IF n.t = "nan" THEN 0 ELSE n.v
    IN  Min(23 * Scale, Max(0, orZero))

\* String(h) of a non-negative integer
RECURSIVE IntToStr(_)
IntToStr(n) == IF n < 10 THEN <<Digits[n + 1]>>
               ELSE IntToStr(n \div 10) \o <<Digits[(n % 10) + 1]>>

\* s.padStart(2, "0")
PadStart2(s) == IF Len(s) < 2 THEN <<"0">> \o s ELSE s

\* hourLabel without the padStart: "6:00" for hour 6
hourLabelUnpadded(h) == IntToStr(h) \o <<":", "0", "0">>

\* hourLabel
hourLabel(h) == PadStart2(IntToStr(h)) \o <<":", "0", "0">>

\* +v.toFixed(3): v rounded to a multiple of 1/1000, a tie away from zero
ToFixed3(v) ==
    LET step == Scale \div 1000
        mag == IF v < 0 THEN 0 - v ELSE v
        r == ((mag + (step \div 2)) \div step) * step
    IN  IF v < 0 THEN 0 - r ELSE r

\* Array.from({ length: 24 }, (_, h) => ({ time: hourLabel(h), kwh: 0 }))
ZeroSeries == [i \in 1..24 |-> [time |-> hourLabel(i - 1), kwh |-> Num(0)]]

\* Number.isFinite(r.kwh) ? r.kwh : 0
FiniteOrZero(x) == IF x.t = "num" THEN x.v ELSE 0

\* sums[h] += x.  An h that is no integer sets a property of the array
\* object that is no element, and map() does not visit it.
AddAt(sums, h, x) ==
    IF h % Scale = 0 THEN [sums EXCEPT ![(h \div Scale) + 1] = @ + x] ELSE sums

\* The summation with each reading weighted by its tariff
RECURSIVE SumPerHourByTariff(_, _)
SumPerHourByTariff(rows, sums) ==
    IF rows = <<>> THEN sums
    ELSE SumPerHourByTariff(Tail(rows),
             AddAt(sums, hourFromTime(Head(rows).time),
                   (FiniteOrZero(Head(rows).kwh) * FiniteOrZero(Head(rows).tariff)) \div Scale))

RECURSIVE SumPerHour(_, _)
SumPerHour(rows, sums) ==
    IF rows = <<>> THEN sums
    ELSE SumPerHour(Tail(rows), AddAt(sums, hourFromTime(Head(rows).time), FiniteOrZero(Head(rows).kwh)))

\* date-fns parse(str, "M/d/yy", new Date()).getTime(), as a day ordinal,
\* or NaN for an Invalid Date.  A two-digit year is taken in the century
\* around the reference date.
DaysIn(m, y) ==
    CASE m \in {4, 6, 9, 11} -> 30
      [] m = 2 -> IF y % 4 = 0 THEN 29 ELSE 28
      [] OTHER -> 31

ParseDate(str) ==
    LET mStr == SplitFirst(str, "/")
        rest == SplitRest(str, "/")
        dStr == SplitFirst(rest, "/")
        yStr == SplitRest(rest, "/")
        OneOrTwoDigits(x) == Len(x) \in {1, 2} /\ AllDigits(x)
    IN  IF OneOrTwoDigits(mStr) /\ OneOrTwoDigits(dStr) /\ OneOrTwoDigits(yStr)
        THEN LET m == IntVal(mStr)
                 d == IntVal(dStr)
                 yy == IntVal(yStr)
                 y == IF yy <= 75 THEN 2000 + yy ELSE 1900 + yy
             IN  IF m \in 1..12 /\ d >= 1 /\ d <= DaysIn(m, y)
                 THEN Num((y * 12 + (m - 1)) * 31 + d)
                 ELSE NaN
        ELSE NaN

\* The dates that `latest?.r.date` can be.  With every date valid the sort
\* is by time, descending and stable, and [0] is the first row of the latest
\* day.  With an Invalid Date the comparator returns NaN and is no
\* consistent ordering, so the order of the result is implementation-defined.
LatestDates(all) ==
    LET T(i) == ParseDate(all[i].date)
    IN  IF \A i \in 1..Len(all) : T(i).t = "num"
        THEN {all[i].date : i \in {k \in 1..Len(all) :
                  /\ \A j \in 1..Len(all) : T(j).v <= T(k).v
                  /\ \A j \in 1..(k - 1) : T(j).v < T(k).v}}
        ELSE {all[i].date : i \in 1..Len(all)}

\* !all.length: the body is an empty array, or the error object of a 500
NoLength(resp) == ~resp.isArray \/ Len(resp.rows) = 0

\* The dates that `targetDate` can be after step 2.
TargetDates(all, date) ==
    IF date = Undefined \/ date = <<>> THEN LatestDates(all) ELSE {date}

\* Steps 3 to 5, for a chosen target date.
SeriesFor(all, targetDate) ==
    LET OfDate(r) == r.date = targetDate
        rows == SelectSeq(all, OfDate)
        sums == SumPerHour(rows, [i \in 1..24 |-> 0])
    IN  [i \in 1..24 |-> [time |-> hourLabel(i - 1), kwh |-> Num(ToFixed3(sums[i]))]]


(***************************************************************************)
(* Requests to the energy route and calls of the loader                    *)
(***************************************************************************)
\* Values of the homeId and appliance query parameters of a direct request
\* (null when the parameter is not in the URL).
HomeParams == {Null, <<>>, Home1, Home2}
ApplianceParams == {Null, AC}

\* Arguments of loadDailyUsageByHour: a home of the file, a home with no
\* row, and a date that is given, omitted or matches no row.
UsageHomes == {Home1, Home2, Home3}
UsageDates == {Undefined, Date1, Date2, DateNoRow}

EnergyIdle ==
    /\ energyReq = NoCall
    /\ usageCall = NoCall

InitEnergyIdle ==
    /\ fsOk = TRUE
    /\ energyReq = NoCall
    /\ shaped = <<>>
    /\ energyResp = NoCall
    /\ usageCall = NoCall
    /\ usageAll = <<>>
    /\ usageTarget = Undefined
    /\ series = <<>>

\* GET /api/energy?homeId=..&appliance=..
GetEnergy(readOk, homeId, appliance) ==
    /\ EnergyIdle
    /\ LET out == EnergyGET(csv, readOk, homeId, appliance)
       IN  /\ fsOk' = readOk
           /\ energyReq' = [homeId |-> homeId, appliance |-> appliance]
           /\ shaped' = out.shaped
           /\ energyResp' = out.resp
    /\ UNCHANGED <<csv, usageCall, usageAll, usageTarget, series>>

\* loadDailyUsageByHour(homeId, date), the fetch of the route included
LoadDailyUsageByHour(readOk, homeId, date) ==
    /\ EnergyIdle
    /\ LET out == EnergyGET(csv, readOk, homeId, Null)
           all == out.resp.rows
       IN  /\ fsOk' = readOk
           /\ energyReq' = [homeId |-> homeId, appliance |-> Null]
           /\ shaped' = out.shaped
           /\ energyResp' = out.resp
           /\ usageCall' = [homeId |-> homeId, date |-> date]
           /\ usageAll' = all
           /\ IF NoLength(out.resp)
              THEN /\ usageTarget' = Undefined
                   /\ series' = ZeroSeries
              ELSE \E target \in TargetDates(all, date) :
                   /\ usageTarget' = target
                   /\ series' = SeriesFor(all, target)
    /\ UNCHANGED csv

\* The response has been delivered; the route and the loader keep no state.
EnergyDone ==
    /\ ~EnergyIdle
    /\ fsOk' = TRUE
    /\ energyReq' = NoCall
    /\ shaped' = <<>>
    /\ energyResp' = NoCall
    /\ usageCall' = NoCall
    /\ usageAll' = <<>>
    /\ usageTarget' = Undefined
    /\ series' = <<>>
    /\ UNCHANGED csv

InitDevicesIdle ==
    /\ now = 0
    /\ backend = NoCall
    /\ devCall = NoCall
    /\ devices = <<>>

InitCoachIdle ==
    /\ impl = "none"
    /\ coachHome = 1
    /\ messages = <<>>
    /\ draft = <<>>
    /\ isThinking = FALSE
    /\ inflight = 0
    /\ sent = NoCall
    /\ chatResult = NoCall

InitProxyIdle ==
    /\ proxyCall = NoCall
    /\ proxyResp = NoCall

InitTariffIdle == tariffRun = NoCall

InitRefreshIdle ==
    /\ versions = <<>>
    /\ reqs = <<>>

InitForecastIdle ==
    /\ dailyHistory = <<>>
    /\ forecastUi = NoCall

InitNowIdle ==
    /\ nowUi = NoCall
    /\ nowFetch = NoCall

InitSectionIdle ==
    /\ secUi = NoCall
    /\ secFetches = <<>>
    /\ secAdded = <<>>

InitModalIdle ==
    /\ modalUi = NoCall
    /\ modalFetches = <<>>

InitRunsIdle ==
    /\ nowRuns = <<>>
    /\ nowMounted = FALSE

InitSignUpIdle == signup = NoCall

InitUiIdle ==
    /\ InitSectionIdle
    /\ InitModalIdle
    /\ InitRunsIdle
    /\ InitSignUpIdle

InitEnergy ==
    /\ csv \in CsvFiles
    /\ InitProxyIdle
    /\ InitTariffIdle
    /\ InitRefreshIdle
    /\ InitForecastIdle
    /\ InitNowIdle
    /\ InitUiIdle
    /\ InitEnergyIdle
    /\ InitDevicesIdle
    /\ InitCoachIdle

NextEnergy ==
    \/ \E readOk \in BOOLEAN, homeId \in HomeParams, appliance \in ApplianceParams :
           GetEnergy(readOk, homeId, appliance) /\ UNCHANGED <<deviceVars, coachVars, proxyVars, tariffVars, refreshVars, forecastVars, nowVars, uiVars>>
    \/ \E readOk \in BOOLEAN, homeId \in UsageHomes, date \in UsageDates :
           LoadDailyUsageByHour(readOk, homeId, date) /\ UNCHANGED <<deviceVars, coachVars, proxyVars, tariffVars, refreshVars, forecastVars, nowVars, uiVars>>
    \/ EnergyDone /\ UNCHANGED <<deviceVars, coachVars, proxyVars, tariffVars, refreshVars, forecastVars, nowVars, uiVars>>

SpecEnergy == InitEnergy /\ [][NextEnergy]_vars


(***************************************************************************)
(* Properties of the hourly usage series                                   *)
(***************************************************************************)
RECURSIVE SumTo(_, _)
SumTo(f, n) == IF n = 0 THEN 0 ELSE f[n] + SumTo(f, n - 1)

Abs(x) == IF x < 0 THEN 0 - x ELSE x

\* The label of hour h as the claim writes it: two digits, then ":00".
TwoDigitLabel(h) == <<Digits[(h \div 10) + 1], Digits[(h % 10) + 1], ":", "0", "0">>

\* The rows of `all` that are of the target date.
TargetRows == {i \in 1..Len(usageAll) : usageAll[i].date = usageTarget}

\* C1: loadDailyUsageByHour always returns exactly 24 points, ordered by
\* hour 0..23 with the labels 00:00 .. 23:00, whatever the rows and the date
\* argument; an hour in which no reading of the target date falls carries
\* kwh 0.
C1_SeriesHas24OrderedPoints ==
    usageCall # NoCall =>
        /\ DOMAIN series = 1..24
        /\ \A h \in 0..23 :
              /\ series[h + 1].time = TwoDigitLabel(h)
              /\ series[h + 1].kwh.t = "num"
              /\ (\A i \in TargetRows : hourFromTime(usageAll[i].time) # h * Scale)
                     => series[h + 1].kwh.v = 0

\* A call with the date omitted whose series has a filled and an empty hour.
C1_Witness ==
    /\ usageCall # NoCall
    /\ usageCall.date = Undefined
    /\ \E h \in 1..24 : series[h].kwh.v > 0
    /\ \E h \in 1..24 : series[h].kwh.v = 0

\* A call with a date that matches no row of a home that has rows.
C1_WitnessNoRowOfDate ==
    /\ usageCall # NoCall
    /\ usageCall.date = DateNoRow
    /\ Len(usageAll) > 0
    /\ \A h \in 1..24 : series[h].kwh.v = 0

\* The readings of a home and a date, as the Normalizer shapes the file.
DayReadings(home, date) ==
    LET sh == ShapeRows(csv)
    IN  {i \in 1..Len(sh) : sh[i].homeId = home /\ sh[i].date = date}

\* The usage total of a home and a date: the sum of kwh of its readings.
DayTotal(home, date) ==
    LET sh == ShapeRows(csv)
        kwhOf == [i \in 1..Len(sh) |->
                    IF i \in DayReadings(home, date) THEN FiniteOrZero(sh[i].kwh) ELSE 0]
    IN  SumTo(kwhOf, Len(sh))

SeriesTotal == SumTo([h \in 1..24 |-> series[h].kwh.v], 24)

\* What rounding each of the 24 points to 1/1000 can add up to.
RoundingSlack == 24 * ((Scale \div 1000) \div 2)

\* A call whose fetch was answered with the rows of the file.
UsageAnswered == usageCall # NoCall /\ fsOk /\ usageTarget # Undefined

\* C2: the sum of the 24 hourly kwh values equals the sum of kwh of all the
\* home's readings of the target date (up to the rounding of the points): no
\* reading of the date is dropped or counted twice, whatever its time string.
C2_SeriesSumsToDayTotal ==
    UsageAnswered =>
        Abs(SeriesTotal - DayTotal(usageCall.homeId, usageTarget)) <= RoundingSlack

\* The hour the claim assigns to a time: the hour component, truncated to
\* the containing hour and clamped into 0..23.
ContainingHour(t) ==
    LET n == StringToNumber(SplitFirst(t, ":"))
        whole == IF n.t = "nan" THEN 0
                 ELSE IF n.v < 0 THEN 0 - ((0 - n.v + Scale - 1) \div Scale)
                 ELSE n.v \div Scale
    IN  Min(23, Max(0, whole))

\* The kwh of the home's readings of the target date that belong to hour h.
HourTotal(home, date, h) ==
    LET sh == ShapeRows(csv)
        kwhOf == [i \in 1..Len(sh) |->
                    IF i \in DayReadings(home, date) /\ ContainingHour(sh[i].time) = h
                    THEN FiniteOrZero(sh[i].kwh) ELSE 0]
    IN  SumTo(kwhOf, Len(sh))

\* C3: each reading is added to the bucket of the hour component of its
\* time, minutes truncated to the containing hour and an hour outside 0..23
\* clamped into it, so every bucket is the total of the readings of its hour.
C3_EachReadingInItsHourBucket ==
    UsageAnswered =>
        \A h \in 0..23 :
            Abs(series[h + 1].kwh.v - HourTotal(usageCall.homeId, usageTarget, h))
                <= (Scale \div 1000) \div 2

(***************************************************************************)
(* Properties of the row shaping of GET /api/energy                        *)
(***************************************************************************)
NumericFields == {"kwh", "tariff", "outC", "inC"}
StringFields == {"homeId", "date", "time", "appliance", "tou"}

\* The columns the route reads for a field of the shaped row, in order.
ColumnsOf(f) ==
    CASE f = "homeId" -> <<ColHome>>
      [] f = "date" -> <<ColDate>>
      [] f = "time" -> <<ColTime>>
      [] f = "appliance" -> <<ColAppliance>>
      [] f = "kwh" -> <<ColKwh>>
      [] f = "tou" -> <<ColTou, ColTouAlias>>
      [] f = "tariff" -> <<ColTariff, ColTariffAlias>>
      [] f = "outC" -> <<ColOutC, ColOutCAlias>>
      [] f = "inC" -> <<ColInC>>

\* The text of a field in a data line, or undefined when the header has
\* none of its columns.
TextOf(f, i) ==
    IF \E k \in 1..Len(ColumnsOf(f)) : ColumnsOf(f)[k] \in csv.header
    THEN csv.rows[i][FieldOf(ColumnsOf(f)[1])]
    ELSE Undefined

\* A GET that read the file.
EnergyServed == energyReq # NoCall /\ fsOk

\* C7: the Normalizer maps every missing or unparseable numeric field to 0
\* and every missing string field to the empty string, trimming strings; no
\* shaped row carries NaN in a numeric field.
C7_MalformedNumbersBecomeZero ==
    EnergyServed =>
        \A i \in 1..Len(shaped) :
            /\ \A f \in NumericFields :
                  /\ shaped[i][f].t = "num"
                  /\ (TextOf(f, i) = Undefined \/ StringToNumber(TextOf(f, i)).t = "nan")
                         => shaped[i][f] = Num(0)
            /\ \A f \in StringFields :
                  /\ TextOf(f, i) = Undefined => shaped[i][f] = <<>>
                  /\ TextOf(f, i) # Undefined => shaped[i][f] = Trim(TextOf(f, i))

\* C8: normalizing a batch never raises and never drops a row: the shaped
\* output has one record per input row, in the same order, and the record of
\* a row is what that row alone is shaped to, whatever the other rows hold.
C8_OneShapedRowPerInputRow ==
    EnergyServed =>
        /\ energyResp.status = 200
        /\ Len(shaped) = Len(csv.rows)
        /\ \A i \in 1..Len(shaped) : shaped[i] = ShapeRow(csv.header, csv.rows[i])

\* A batch of two rows, the first with a malformed number, the second without.
C8_Witness ==
    /\ EnergyServed
    /\ Len(csv.rows) = 2
    /\ Len(shaped) = 2
    /\ shaped[1].kwh.t = "nan"
    /\ shaped[2].kwh = Num(5000)


(***************************************************************************)
(* getDevices                                                              *)
(***************************************************************************)
\* 36e5: milliseconds per hour
MsPerHour == 3600000

\* Instants lie within MaxSkewMs milliseconds of 0, 24, 72 or 96 hours, or
\* one second off them.
MaxSkewMs == 1
Offsets == ((0 - MaxSkewMs)..MaxSkewMs) \cup {0 - 1000, 1000}
Instants == {t \in {h * MsPerHour + d : h \in {0, 24, 72, 96}, d \in Offsets} : t >= 0}

\* d.last_seen_iso: missing, null, the empty string, an ISO timestamp (the
\* instant it denotes), or a string that is no date.
LastSeenValues ==
    {[k |-> "undefined", ms |-> 0], [k |-> "null", ms |-> 0], [k |-> "empty", ms |-> 0],
     [k |-> "iso", ms |-> 0], [k |-> "iso", ms |-> 24 * MsPerHour], [k |-> "garbage", ms |-> 0]}

\* d.is_online: missing, null, a boolean, a string or a number.
OnlineFlags ==
    {[k |-> "undefined", b |-> FALSE], [k |-> "null", b |-> FALSE],
     [k |-> "boolean", b |-> TRUE], [k |-> "boolean", b |-> FALSE],
     [k |-> "string", b |-> TRUE], [k |-> "number", b |-> FALSE]}

\* d.source: missing or a string.
SourceValues == {Undefined, <<"p", "l", "u", "g">>, <<"a", "p", "p">>, <<"w", "i", "f", "i">>}

\* d.last_kwh: missing or a number.
LastKwhValues == {[t |-> "undefined", v |-> 0], Num(12345)}

RawDevice(name, kwh, seen, online, source) ==
    [appliance_type |-> name, last_kwh |-> kwh, last_seen_iso |-> seen,
     is_online |-> online, source |-> source]

RawDevices ==
    {RawDevice(Fridge, kwh, seen, online, source) :
        kwh \in LastKwhValues, seen \in LastSeenValues, online \in OnlineFlags,
        source \in {Undefined, <<"p", "l", "u", "g">>}}
    \cup {RawDevice(AC, Num(12345), [k |-> "iso", ms |-> 0], [k |-> "undefined", b |-> FALSE], source) :
        source \in SourceValues}

\* Device lists of two records.
PairedDevices ==
    {RawDevice(AC, Num(12345), seen, online, <<"w", "i", "f", "i">>) :
        seen \in {[k |-> "undefined", ms |-> 0], [k |-> "iso", ms |-> 0],
                  [k |-> "iso", ms |-> 24 * MsPerHour]},
        online \in {[k |-> "undefined", b |-> FALSE], [k |-> "boolean", b |-> TRUE]}}

\* Responses of GET /homes/:homeId/devices: a failure status, a body
\* without `devices`, or a body with a list of device records.
BackendResponses ==
    {[ok |-> FALSE, hasDevices |-> FALSE, devices |-> <<>>],
     [ok |-> TRUE, hasDevices |-> FALSE, devices |-> <<>>],
     [ok |-> TRUE, hasDevices |-> TRUE, devices |-> <<>>]}
    \cup {[ok |-> TRUE, hasDevices |-> TRUE, devices |-> <<d>>] : d \in RawDevices}
    \cup {[ok |-> TRUE, hasDevices |-> TRUE, devices |-> <<d, e>>] : d \in PairedDevices, e \in PairedDevices}

\* const lastSeen = d.last_seen_iso || undefined
lastSeenOf(d) ==
    IF d.last_seen_iso.k \in {"undefined", "null", "empty"}
    THEN [k |-> "undefined", ms |-> 0]
    ELSE d.last_seen_iso

\* hoursSince with a missing lastSeen counted as seen just now
hoursSinceMissingIsNow(d, clock) ==
    LET lastSeen == lastSeenOf(d)
    IN  CASE lastSeen.k = "undefined" -> Num(0)
          [] lastSeen.k = "garbage" -> NaN
          [] lastSeen.k = "iso" -> Num(clock - lastSeen.ms)

\* hoursSince, kept in milliseconds: (now - new Date(lastSeen).getTime()),
\* +Infinity without a lastSeen, NaN for a string that is no date.
hoursSince(d, clock) ==
    LET lastSeen == lastSeenOf(d)
    IN  CASE lastSeen.k = "undefined" -> [t |-> "inf", v |-> 0]
          [] lastSeen.k = "garbage" -> NaN
          [] lastSeen.k = "iso" -> Num(clock - lastSeen.ms)

\* hoursSince <= h, the division by 36e5 carried to the other side.  A
\* comparison with NaN is false.
AtMostHours(since, h) ==
    CASE since.t = "inf" -> FALSE
      [] since.t = "nan" -> FALSE
      [] since.t = "num" -> since.v <= h * MsPerHour

\* The status expression with the flag test by truthiness instead of typeof
statusOfTruthyFlag(d, clock) ==
    IF d.is_online.k \in {"boolean", "string", "number"}
    THEN IF d.is_online.b THEN "online" ELSE "offline"
    ELSE IF AtMostHours(hoursSince(d, clock), 24) THEN "online"
    ELSE IF AtMostHours(hoursSince(d, clock), 72) THEN "unknown"
    ELSE "offline"

\* The status expression with strict comparisons
statusOfStrict(d, clock) ==
    LET since == hoursSince(d, clock)
        Below(h) == since.t = "num" /\ since.v < h * MsPerHour
    IN  IF d.is_online.k = "boolean"
        THEN IF d.is_online.b THEN "online" ELSE "offline"
        ELSE IF Below(24) THEN "online"
        ELSE IF Below(72) THEN "unknown"
        ELSE "offline"

\* The status expression with the last two classes exchanged
statusOfLateUnknown(d, clock) ==
    IF d.is_online.k = "boolean"
    THEN IF d.is_online.b THEN "online" ELSE "offline"
    ELSE IF AtMostHours(hoursSince(d, clock), 24) THEN "online"
    ELSE IF AtMostHours(hoursSince(d, clock), 72) THEN "offline"
    ELSE "unknown"

\* const status = typeof d.is_online === 'boolean' ? ... : hoursSince <= 24 ? ...
statusOf(d, clock) ==
    IF d.is_online.k = "boolean"
    THEN IF d.is_online.b THEN "online" ELSE "offline"
    ELSE IF AtMostHours(hoursSince(d, clock), 24) THEN "online"
    ELSE IF AtMostHours(hoursSince(d, clock), 72) THEN "unknown"
    ELSE "offline"

\* A source that passes any string through and defaults a missing one to app
sourceOfPassThrough(d) == IF d.source = Undefined THEN <<"a", "p", "p">> ELSE d.source

\* const source = d.source === 'plug' ? 'plug' : 'app'
sourceOf(d) == IF d.source = <<"p", "l", "u", "g">> THEN <<"p", "l", "u", "g">> ELSE <<"a", "p", "p">>

\* v.toFixed(3) of a non-negative number
ToFixed3Str(v) ==
    LET r == ToFixed3(v) \div (Scale \div 1000)
        frac == r % 1000
    IN  IntToStr(r \div 1000) \o <<".">>
        \o <<Digits[(frac \div 100) + 1], Digits[((frac \div 10) % 10) + 1], Digits[(frac % 10) + 1]>>

\* The em dash of the power label
Dash == <<"emdash">>

\* typeof d.last_kwh === 'number' && !Number.isNaN(d.last_kwh) ? `${...} kWh` : dash
powerLabelOf(d) ==
    IF d.last_kwh.t = "num" THEN ToFixed3Str(d.last_kwh.v) \o <<" ", "k", "W", "h">> ELSE Dash

\* The callback of (json.devices || []).map(...)
DeviceOf(d, clock) ==
    [name |-> d.appliance_type, powerLabel |-> powerLabelOf(d), status |-> statusOf(d, clock),
     source |-> sourceOf(d), lastSeen |-> lastSeenOf(d)]

\* json.devices || [] with a placeholder record in place of the empty list
DevicesOrPlaceholder(resp) ==
    IF resp.hasDevices THEN resp.devices
    ELSE <<RawDevice(Fridge, [t |-> "undefined", v |-> 0], [k |-> "undefined", ms |-> 0],
                     [k |-> "undefined", b |-> FALSE], Undefined)>>

\* json.devices || []
DevicesOrEmpty(resp) == IF resp.hasDevices THEN resp.devices ELSE <<>>

\* getDevices: throws on a failure status, else maps the records
GetDevices ==
    /\ devCall' = [now |-> now, threw |-> ~backend.ok]
    /\ devices' = IF backend.ok
                  THEN [i \in 1..Len(DevicesOrEmpty(backend)) |-> DeviceOf(DevicesOrEmpty(backend)[i], now)]
                  ELSE <<>>
    /\ UNCHANGED <<now, backend>>

\* Time passes.
Tick ==
    /\ \E t \in Instants : t > now /\ now' = t
    /\ UNCHANGED <<backend, devCall, devices>>

InitDevices ==
    /\ InitProxyIdle
    /\ InitTariffIdle
    /\ InitRefreshIdle
    /\ InitForecastIdle
    /\ InitNowIdle
    /\ InitUiIdle
    /\ now \in Instants
    /\ backend \in BackendResponses
    /\ devCall = NoCall
    /\ devices = <<>>
    /\ csv = [header |-> {}, rows |-> <<>>]
    /\ InitEnergyIdle
    /\ InitCoachIdle

NextDevices ==
    \/ GetDevices /\ UNCHANGED <<energyVars, coachVars, proxyVars, tariffVars, refreshVars, forecastVars, nowVars, uiVars>>
    \/ Tick /\ UNCHANGED <<energyVars, coachVars, proxyVars, tariffVars, refreshVars, forecastVars, nowVars, uiVars>>

SpecDevices == InitDevices /\ [][NextDevices]_vars


(***************************************************************************)
(* Properties of the device classifier                                     *)
(***************************************************************************)
\* The records of the last successful getDevices call.
Classified == IF devCall # NoCall /\ ~devCall.threw THEN 1..Len(devices) ELSE {}
RawOf(i) == DevicesOrEmpty(backend)[i]

HasBooleanFlag(i) == RawOf(i).is_online.k = "boolean"
HasNoLastSeen(i) == RawOf(i).last_seen_iso.k \in {"undefined", "null", "empty"}
HasTimestamp(i) == RawOf(i).last_seen_iso.k = "iso"

\* Age of the last-seen timestamp at the time of the call, in milliseconds.
AgeMs(i) == devCall.now - RawOf(i).last_seen_iso.ms

Ms24h == 24 * 60 * 60 * 1000
Ms72h == 72 * 60 * 60 * 1000

\* The class the claim gives an age.
AgeClass(age) ==
    IF age <= Ms24h THEN "online" ELSE IF age <= Ms72h THEN "unknown" ELSE "offline"

\* C4: without a boolean online flag a device is classified by the age of
\* its last-seen timestamp: age <= 24h online, 24h < age <= 72h unknown,
\* age > 72h offline, the boundaries belonging to the lower class.
C4_StatusFollowsAge ==
    \A i \in Classified :
        (~HasBooleanFlag(i) /\ HasTimestamp(i)) => devices[i].status = AgeClass(AgeMs(i))

\* A device seen exactly 24h before the call is online.
C4_Witness ==
    \E i \in Classified :
        ~HasBooleanFlag(i) /\ HasTimestamp(i) /\ AgeMs(i) = Ms24h /\ devices[i].status = "online"

\* The other boundaries: 1 ms over 24h, exactly 72h, 1 s over 72h.
C4_WitnessJustOver24h ==
    \E i \in Classified :
        ~HasBooleanFlag(i) /\ HasTimestamp(i) /\ AgeMs(i) = Ms24h + 1 /\ devices[i].status = "unknown"
C4_WitnessExactly72h ==
    \E i \in Classified :
        ~HasBooleanFlag(i) /\ HasTimestamp(i) /\ AgeMs(i) = Ms72h /\ devices[i].status = "unknown"
C4_WitnessJustOver72h ==
    \E i \in Classified :
        ~HasBooleanFlag(i) /\ HasTimestamp(i) /\ AgeMs(i) = Ms72h + 1000 /\ devices[i].status = "offline"

\* C5, as stated: a device record with no last-seen value is always
\* classified offline, for every other field value of the record.
C5_NoLastSeenAlwaysOffline ==
    \A i \in Classified : HasNoLastSeen(i) => devices[i].status = "offline"

\* C5, amended: a device record with no last-seen value is classified
\* offline for every other field value of the record, except that a record
\* whose is_online flag is the boolean true is online.
C5_NoLastSeenOfflineUnlessFlaggedOnline ==
    \A i \in Classified :
        HasNoLastSeen(i) =>
            devices[i].status =
                IF HasBooleanFlag(i) /\ RawOf(i).is_online.b THEN "online" ELSE "offline"

\* A record without a last-seen value and with a non-boolean flag, from a
\* plug and with a reading, is offline.
C5_Witness ==
    \E i \in Classified :
        /\ HasNoLastSeen(i)
        /\ RawOf(i).is_online.k = "string"
        /\ RawOf(i).source = <<"p", "l", "u", "g">>
        /\ RawOf(i).last_kwh.t = "num"
        /\ devices[i].status = "offline"

\* C6: a boolean is_online flag alone decides the status (true online, false
\* offline), whatever the last-seen age; a flag that is no boolean (missing,
\* null, string, number) is ignored and the age decides.
C6_BooleanFlagOverridesAge ==
    \A i \in Classified :
        /\ HasBooleanFlag(i) =>
              devices[i].status = IF RawOf(i).is_online.b THEN "online" ELSE "offline"
        /\ ~HasBooleanFlag(i) =>
              devices[i].status =
                  IF HasTimestamp(i) THEN AgeClass(AgeMs(i)) ELSE "offline"

\* A device flagged online whose last-seen is more than 72h old, and one
\* flagged offline that was seen within 24h.
C6_Witness ==
    \E i \in Classified :
        /\ HasBooleanFlag(i) /\ RawOf(i).is_online.b
        /\ HasTimestamp(i) /\ AgeMs(i) > Ms72h
        /\ devices[i].status = "online"
C6_WitnessFlaggedOffline ==
    \E i \in Classified :
        /\ HasBooleanFlag(i) /\ ~RawOf(i).is_online.b
        /\ HasTimestamp(i) /\ AgeMs(i) <= Ms24h
        /\ devices[i].status = "offline"
C6_WitnessStringFlag ==
    \E i \in Classified :
        /\ RawOf(i).is_online.k = "string" /\ RawOf(i).is_online.b
        /\ HasTimestamp(i) /\ AgeMs(i) > Ms72h
        /\ devices[i].status = "offline"


(***************************************************************************)
(* CoachSection and sendChatMessage                                        *)
(***************************************************************************)
\* The two CoachSection sources of the repository.
Impls == {"part_005", "coach_section"}

\* Largest length of the message list.
MaxMessages == 17

\* history.slice(-10)
HistoryLimit == 10

\* s.slice(-n)
SliceLast(s, n) == IF Len(s) <= n THEN s ELSE SubSeq(s, Len(s) - n + 1, Len(s))

Turn(role, content) == [role |-> role, content |-> content]

Greeting == Turn("assistant", <<"H", "i", "!">>)
NoReplyText == <<"S", "o", "r", "r", "y", "-", "n", "o", " ", "r", "e", "p", "l", "y", " ", "r", "e", "c", "e", "i", "v", "e", "d", ".">>
SendErrorText == <<"S", "o", "r", "r", "y", "-", "s", "o", "m", "e", "t", "h", "i", "n", "g", " ", "w", "e", "n", "t", " ", "w", "r", "o", "n", "g", " ", "s", "e", "n", "d", "i", "n", "g", " ", "t", "h", "a", "t", ".">>

\* What the user may have typed: nothing, blanks, or the next question,
\* which carries its number.
UserTurns == Cardinality({i \in 1..Len(messages) : messages[i].role = "user"})
Drafts == {<<>>, <<" ">>, <<" ", "q">> \o IntToStr(UserTurns + 1) \o <<" ">>}

\* role: m.role === "assistant" ? "assistant" : "user", with the branches swapped
normalizeRoleSwapped(role) == IF role = "assistant" THEN "user" ELSE "assistant"

\* role: m.role === "assistant" ? "assistant" : "user"   (coach-section.tsx)
normalizeRole(role) == IF role = "assistant" THEN "assistant" ELSE "user"

\* history.map(m => ({ role: m.role, content: String(m.content ?? "") }))
safeHistory(history) ==
    [i \in 1..Len(history) |-> Turn(history[i].role, history[i].content)]

\* history.map(m => ({ role: normalized, content: String(m.content ?? "") }))
normalizedHistory(history) ==
    [i \in 1..Len(history) |-> Turn(normalizeRole(history[i].role), history[i].content)]

\* The request of sendToCoach in part_005: {message, home_id, history}
RequestPart005(history, latestUserText) ==
    [via |-> "part_005", message |-> latestUserText, hasHomeId |-> TRUE, homeId |-> coachHome,
     turns |-> SliceLast(safeHistory(history), HistoryLimit), full |-> history]

\* The request of sendToCoach in coach-section.tsx: {messages, persona, context}
RequestCoachSection(history) ==
    [via |-> "coach_section", message |-> Undefined, hasHomeId |-> FALSE, homeId |-> 0,
     turns |-> normalizedHistory(history), full |-> history]

\* The request of sendChatMessage in lib/api.ts: {message, home_id, history}
RequestSendChatMessage(message, homeId, history) ==
    [via |-> "sendChatMessage", message |-> message, hasHomeId |-> TRUE, homeId |-> homeId,
     turns |-> SliceLast(history, HistoryLimit), full |-> history]

\* Outcomes of a request to the responder.
Outcomes == {"network_failure", "error_status", "not_json", "reply_missing",
             "reply_not_string", "reply_blank", "reply"}

\* JavaScript values a response body may carry in its reply field.
JsString(s) == [k |-> "string", s |-> s]
JsNumber42 == [k |-> "number", s |-> <<"4", "2">>]
JsUndefined == [k |-> "undefined", s |-> <<>>]

\* data.reply (data.message for coach-section.tsx) of a JSON body
ReplyValue(outcome) ==
    CASE outcome = "reply_missing" -> JsUndefined
      [] outcome = "reply_not_string" -> JsNumber42
      [] outcome = "reply_blank" -> JsString(<<" ", " ">>)
      [] outcome = "reply" -> JsString(<<" ", "o", "k", " ">>)

\* typeof v === "string" ? v.trim() : ""
TrimmedIfString(v) == IF v.k = "string" THEN Trim(v.s) ELSE <<>>

\* a || b for a string a
OrElse(a, b) == IF a # <<>> THEN a ELSE b

\* sendToCoach of part_005.  A body that is no JSON is read as {} because
\* both res.json() and the res.text() after it have a catch.
sendToCoachPart005(outcome) ==
    CASE outcome \in {"network_failure", "error_status"} -> SendErrorText
      [] outcome = "not_json" -> OrElse(<<>>, NoReplyText)
      [] OTHER -> OrElse(TrimmedIfString(ReplyValue(outcome)), NoReplyText)

\* sendToCoach of coach-section.tsx.  After res.json() failed the body is
\* consumed, so the res.text() inside its catch rejects and the outer catch
\* answers.
sendToCoachCoachSection(outcome) ==
    CASE outcome \in {"network_failure", "error_status", "not_json"} -> SendErrorText
      [] OTHER -> OrElse(TrimmedIfString(ReplyValue(outcome)), NoReplyText)

\* What sendToCoach resolves to.
ReplyFor(outcome) ==
    IF impl = "part_005" THEN sendToCoachPart005(outcome) ELSE sendToCoachCoachSection(outcome)

TroubleText == <<"I", "'", "m", " ", "h", "a", "v", "i", "n", "g", " ", "t", "r", "o", "u", "b", "l", "e", " ", "r", "e", "s", "p", "o", "n", "d", "i", "n", "g", " ", "r", "i", "g", "h", "t", " ", "n", "o", "w", ".">>

\* A settled promise: rejected, or resolved with a value.
Rejected == [threw |-> TRUE, value |-> JsUndefined]
Resolved(v) == [threw |-> FALSE, value |-> v]

\* Truthiness of a reply value: a non-empty string or a non-zero number.
Truthy(v) == (v.k = "string" /\ v.s # <<>>) \/ v.k = "number"

\* sendChatMessage of lib/api.ts after its fetch: no try/catch, a throw on
\* !response.ok, response.json() unguarded, and data.reply || fallback.
sendChatMessageSettled(outcome) ==
    IF outcome \in {"network_failure", "error_status", "not_json"}
    THEN Rejected
    ELSE IF Truthy(ReplyValue(outcome)) THEN Resolved(ReplyValue(outcome))
                                       ELSE Resolved(JsString(TroubleText))

\* onChange of the textarea
SetDraft ==
    /\ impl \in Impls
    /\ \E d \in Drafts : d # draft /\ draft' = d
    /\ UNCHANGED <<impl, coachHome, messages, isThinking, inflight, sent, chatResult>>

\* The Send button: disabled={isThinking || draft.trim().length === 0}.
\* The form has no other control that submits it.
SendEnabled == ~isThinking /\ Len(Trim(draft)) # 0

\* handleSubmit of part_005 up to the await, for a submit event of the form
SubmitPart005 ==
    /\ impl = "part_005"
    /\ LET text == Trim(draft)
       IN  IF text = <<>> \/ isThinking
           THEN UNCHANGED <<messages, draft, isThinking, inflight, sent, chatResult>>
           ELSE LET nextHistory == Append(messages, Turn("user", text))
                IN  /\ messages' = nextHistory
                    /\ draft' = <<>>
                    /\ isThinking' = TRUE
                    /\ inflight' = inflight + 1
                    /\ sent' = RequestPart005(nextHistory, text)
                    /\ chatResult' = NoCall
    /\ UNCHANGED <<impl, coachHome>>

\* handleSubmit of coach-section.tsx up to the await, for a submit event of
\* the form
SubmitCoachSection ==
    /\ impl = "coach_section"
    /\ LET text == Trim(draft)
       IN  IF text = <<>>
           THEN UNCHANGED <<messages, draft, isThinking, inflight, sent, chatResult>>
           ELSE LET nextHistory == Append(messages, Turn("user", text))
                IN  /\ messages' = nextHistory
                    /\ draft' = <<>>
                    /\ isThinking' = TRUE
                    /\ inflight' = inflight + 1
                    /\ sent' = RequestCoachSection(nextHistory)
                    /\ chatResult' = NoCall
    /\ UNCHANGED <<impl, coachHome>>

\* A click on the Send button, which is enabled
HandleSubmitPart005 ==
    /\ SendEnabled
    /\ Len(messages) + inflight + 2 <= MaxMessages
    /\ SubmitPart005

HandleSubmitCoachSection ==
    /\ SendEnabled
    /\ Len(messages) + inflight + 2 <= MaxMessages
    /\ SubmitCoachSection

\* The rest of handleSubmit with sendToCoach throwing on a failed request:
\* no message is appended
ReplyArrivesUnlessFailed(outcome) ==
    /\ inflight > 0
    /\ messages' = IF outcome \in {"network_failure", "error_status"}
                   THEN messages
                   ELSE Append(messages, Turn("assistant", ReplyFor(outcome)))
    /\ isThinking' = FALSE
    /\ inflight' = inflight - 1
    /\ sent' = NoCall
    /\ chatResult' = [via |-> impl, outcome |-> outcome, threw |-> FALSE,
                      value |-> JsString(ReplyFor(outcome))]
    /\ UNCHANGED <<impl, coachHome, draft>>

\* The rest of handleSubmit: sendToCoach resolves, the reply is appended,
\* and the finally block clears isThinking.
ReplyArrives(outcome) ==
    /\ inflight > 0
    /\ messages' = Append(messages, Turn("assistant", ReplyFor(outcome)))
    /\ isThinking' = FALSE
    /\ inflight' = inflight - 1
    /\ sent' = NoCall
    /\ chatResult' = [via |-> impl, outcome |-> outcome, threw |-> FALSE,
                      value |-> JsString(ReplyFor(outcome))]
    /\ UNCHANGED <<impl, coachHome, draft>>

\* sendChatMessage(message, homeId, history) of lib/api.ts, called with the
\* conversation so far, up to its fetch.
SendChatMessage(message, homeId) ==
    /\ impl \in Impls
    /\ inflight = 0
    /\ sent' = RequestSendChatMessage(message, homeId, messages)
    /\ chatResult' = NoCall
    /\ UNCHANGED <<impl, coachHome, messages, draft, isThinking, inflight>>

\* The promise of sendChatMessage settles.
SendChatMessageSettles(outcome) ==
    /\ sent # NoCall
    /\ sent.via = "sendChatMessage"
    /\ LET r == sendChatMessageSettled(outcome)
       IN  chatResult' = [via |-> "sendChatMessage", outcome |-> outcome,
                          threw |-> r.threw, value |-> r.value]
    /\ sent' = NoCall
    /\ UNCHANGED <<impl, coachHome, messages, draft, isThinking, inflight>>

InitCoach ==
    /\ InitProxyIdle
    /\ InitTariffIdle
    /\ InitRefreshIdle
    /\ InitForecastIdle
    /\ InitNowIdle
    /\ InitUiIdle
    /\ impl \in Impls
    /\ coachHome = 1
    /\ messages = <<Greeting>>
    /\ draft = <<>>
    /\ isThinking = FALSE
    /\ inflight = 0
    /\ sent = NoCall
    /\ chatResult = NoCall
    /\ csv = [header |-> {}, rows |-> <<>>]
    /\ InitEnergyIdle
    /\ InitDevicesIdle

NextCoach ==
    \/ SetDraft /\ UNCHANGED <<energyVars, deviceVars, proxyVars, tariffVars, refreshVars, forecastVars, nowVars, uiVars>>
    \/ HandleSubmitPart005 /\ UNCHANGED <<energyVars, deviceVars, proxyVars, tariffVars, refreshVars, forecastVars, nowVars, uiVars>>
    \/ HandleSubmitCoachSection /\ UNCHANGED <<energyVars, deviceVars, proxyVars, tariffVars, refreshVars, forecastVars, nowVars, uiVars>>
    \/ \E outcome \in Outcomes : ReplyArrives(outcome) /\ UNCHANGED <<energyVars, deviceVars, proxyVars, tariffVars, refreshVars, forecastVars, nowVars, uiVars>>
    \/ \E homeId \in {1, 2} : SendChatMessage(<<"q">>, homeId) /\ UNCHANGED <<energyVars, deviceVars, proxyVars, tariffVars, refreshVars, forecastVars, nowVars, uiVars>>
    \/ \E outcome \in Outcomes : SendChatMessageSettles(outcome) /\ UNCHANGED <<energyVars, deviceVars, proxyVars, tariffVars, refreshVars, forecastVars, nowVars, uiVars>>

SpecCoach == InitCoach /\ [][NextCoach]_vars


(***************************************************************************)
(* Properties of the request sent to the coaching responder                *)
(***************************************************************************)
\* The position in the full history of the k-th turn sent, when the turns
\* sent are the most recent ones.
PositionOfSent(k) == Len(sent.full) - Len(sent.turns) + k

\* C9: the history sent to the responder is the most recent 10 turns of the
\* full history (all of it when it has 10 or fewer), in their original
\* order, together with the home identifier.
C9_LastTenTurnsAndHomeId ==
    sent # NoCall =>
        /\ sent.hasHomeId
        /\ sent.via # "sendChatMessage" => sent.homeId = coachHome
        /\ Len(sent.turns) = Min(10, Len(sent.full))
        /\ \A k \in 1..Len(sent.turns) :
              sent.turns[k].content = sent.full[PositionOfSent(k)].content

C9_WitnessPart005Truncates ==
    /\ sent # NoCall
    /\ sent.via = "part_005"
    /\ Len(sent.full) = 16
    /\ Len(sent.turns) = 10
    /\ sent.turns[1] = sent.full[7]

\* sendChatMessage is given 15 turns and sends the last 10.
C9_WitnessFifteenTurns ==
    /\ sent # NoCall
    /\ sent.via = "sendChatMessage"
    /\ Len(sent.full) = 15
    /\ sent.turns = SubSeq(sent.full, 6, 15)

\* C9 for the two senders that truncate.
C9_TruncatingSenders ==
    (sent # NoCall /\ sent.via # "coach_section") =>
        /\ sent.hasHomeId
        /\ Len(sent.turns) = Min(10, Len(sent.full))
        /\ \A k \in 1..Len(sent.turns) : sent.turns[k] = sent.full[PositionOfSent(k)]


(***************************************************************************)
(* Properties of the reply of a chat send                                  *)
(***************************************************************************)
FallbackTexts == {NoReplyText, SendErrorText, TroubleText}

FailureOutcomes == Outcomes \ {"reply"}

\* C11: every chat send settles with a non-blank reply string and is never
\* rejected; on a network failure, a non-success status, a non-JSON body or
\* a missing, non-string or blank reply it resolves to a fixed fallback text.
C11_SendAlwaysRepliesText ==
    chatResult # NoCall =>
        /\ ~chatResult.threw
        /\ chatResult.value.k = "string"
        /\ Trim(chatResult.value.s) # <<>>
        /\ chatResult.outcome \in FailureOutcomes => chatResult.value.s \in FallbackTexts

\* C11 for the two sendToCoach functions, which catch every failure.
C11_SendToCoachAlwaysRepliesText ==
    (chatResult # NoCall /\ chatResult.via # "sendChatMessage") =>
        /\ ~chatResult.threw
        /\ chatResult.value.k = "string"
        /\ Trim(chatResult.value.s) # <<>>
        /\ chatResult.outcome \in FailureOutcomes => chatResult.value.s \in FallbackTexts

\* sendChatMessage rejects on a non-success status.
C11_WitnessSendChatMessageThrows ==
    /\ chatResult # NoCall
    /\ chatResult.via = "sendChatMessage"
    /\ chatResult.outcome = "error_status"
    /\ chatResult.threw


(***************************************************************************)
(* The coach proxy route: POST                                             *)
(***************************************************************************)
\* Texts a request body or a backend body may be.
TextEmpty == <<>>
TextChat == <<"{", "m", "e", "s", "s", "a", "g", "e", "s", ":", "[", "]", "}">>
TextAsk == <<"{", "m", "e", "s", "s", "a", "g", "e", ":", "q", "}">>
TextReply == <<"{", "m", "e", "s", "s", "a", "g", "e", ":", "h", "i", "}">>
TextDetail == <<"{", "d", "e", "t", "a", "i", "l", ":", "n", "o", "}">>
TextNull == <<"n", "u", "l", "l">>
TextHtml == <<"<", "h", "t", "m", "l", ">">>
TextOops == <<"o", "o", "p", "s">>

JsonTexts == {TextChat, TextAsk, TextReply, TextDetail, TextNull}

\* A thrown SyntaxError
SyntaxError == [k |-> "SyntaxError", s |-> <<>>]

\* JSON.parse(text): the value of a JSON text, named by its text, or a
\* SyntaxError for the empty text and for a text that is no JSON.
JsonParse(text) == IF text \in JsonTexts THEN [k |-> "json", s |-> text] ELSE SyntaxError

\* The object literals {} and { message: text }
EmptyObject == [k |-> "object", s |-> <<>>]
MessageObject(text) == [k |-> "message", s |-> text]

\* Request bodies: the two chat payloads, an empty body, a body that is no JSON.
RequestBodies == {TextChat, TextAsk, TextEmpty, TextOops}

\* Status codes of the backend; 204 and 304 allow no body in a Response.
BackendStatuses == {200, 204, 304, 404, 500}
NullBodyStatuses == {101, 204, 205, 304}
BackendTexts == {TextEmpty, TextReply, TextDetail, TextNull, TextHtml, TextOops}

\* What fetch(`${BACKEND_BASE}/coach/chat`) does.
Unreachable == [reachable |-> FALSE, status |-> 0, text |-> TextEmpty]
BackendOutcomes ==
    {Unreachable} \cup
    [reachable : {TRUE}, status : BackendStatuses, text : BackendTexts]

\* res.ok
IsOk(status) == status >= 200 /\ status <= 299

\* data = text ? JSON.parse(text) : {}, with { message: text } in the catch
DataOf(text) ==
    IF text = TextEmpty THEN EmptyObject
    ELSE IF JsonParse(text) = SyntaxError THEN MessageObject(text)
    ELSE JsonParse(text)

\* A JSON response of the route, and a handler that throws.
JsonResponse(status, error, data) ==
    [threw |-> FALSE, status |-> status, error |-> error, data |-> data]
Thrown == [threw |-> TRUE, status |-> 0, error |-> "", data |-> EmptyObject]

ProxyFailed == JsonResponse(502, "coach_proxy_failed", EmptyObject)

\* NextResponse.json(body, { status }): the Response constructor throws for
\* a status that allows no body.
NextResponseJson(status, error, data) ==
    IF status \in NullBodyStatuses THEN Thrown ELSE JsonResponse(status, error, data)

\* The try block of POST, and its catch.
ProxyTry(b) ==
    IF ~b.reachable THEN Thrown
    ELSE IF ~IsOk(b.status)
         THEN NextResponseJson(b.status, "coach_backend_error", DataOf(b.text))
         ELSE NextResponseJson(200, "", DataOf(b.text))

\* POST(request): request.json() is awaited before the try block.
POST(body, b) ==
    IF JsonParse(body) = SyntaxError THEN Thrown
    ELSE IF ProxyTry(b).threw THEN ProxyFailed ELSE ProxyTry(b)

ProxyPost(body, b) ==
    /\ proxyCall = NoCall
    /\ proxyCall' = [body |-> body, backend |-> b]
    /\ proxyResp' = POST(body, b)

\* The response is delivered; the route keeps no state.
ProxyDone ==
    /\ proxyCall # NoCall
    /\ proxyCall' = NoCall
    /\ proxyResp' = NoCall

InitProxy ==
    /\ InitProxyIdle
    /\ InitTariffIdle
    /\ InitRefreshIdle
    /\ InitForecastIdle
    /\ InitNowIdle
    /\ InitUiIdle
    /\ csv = [header |-> {}, rows |-> <<>>]
    /\ InitEnergyIdle
    /\ InitDevicesIdle
    /\ InitCoachIdle

NextProxy ==
    \/ \E body \in RequestBodies, b \in BackendOutcomes :
           ProxyPost(body, b) /\ UNCHANGED <<energyVars, deviceVars, coachVars, tariffVars, refreshVars, forecastVars, nowVars, uiVars>>
    \/ ProxyDone /\ UNCHANGED <<energyVars, deviceVars, coachVars, tariffVars, refreshVars, forecastVars, nowVars, uiVars>>

SpecProxy == InitProxy /\ [][NextProxy]_vars

\* What the claim says the answer to a backend outcome is.
ClaimedAnswer(b) ==
    IF ~b.reachable THEN [status |-> 502, error |-> "coach_proxy_failed"]
    ELSE IF ~IsOk(b.status) THEN [status |-> b.status, error |-> "coach_backend_error"]
    ELSE [status |-> 200, error |-> ""]

\* C12: the POST of the coach proxy never throws: for every request and
\* every backend outcome it answers with JSON: the parsed body on success
\* ({message: text} when the body is no JSON), coach_backend_error with the
\* backend's status on a non-success status, and 502 coach_proxy_failed when
\* the backend cannot be reached.
C12_ProxyAlwaysAnswersJson ==
    proxyCall # NoCall =>
        /\ ~proxyResp.threw
        /\ proxyResp.status = ClaimedAnswer(proxyCall.backend).status
        /\ proxyResp.error = ClaimedAnswer(proxyCall.backend).error
        /\ proxyResp.error # "coach_proxy_failed" => proxyResp.data = DataOf(proxyCall.backend.text)

\* C12 for a request whose body is JSON and a backend status that a
\* response with a body can carry.
C12_ProxyAnswersParsedRequests ==
    (/\ proxyCall # NoCall
     /\ JsonParse(proxyCall.body) # SyntaxError
     /\ proxyCall.backend.status \notin NullBodyStatuses \/ IsOk(proxyCall.backend.status)) =>
        /\ ~proxyResp.threw
        /\ proxyResp.status = ClaimedAnswer(proxyCall.backend).status
        /\ proxyResp.error = ClaimedAnswer(proxyCall.backend).error
        /\ proxyResp.error # "coach_proxy_failed" => proxyResp.data = DataOf(proxyCall.backend.text)

\* A request whose body is no JSON makes the handler throw.
C12_WitnessRequestNotJson ==
    /\ proxyCall # NoCall
    /\ proxyCall.body = TextOops
    /\ proxyResp.threw

\* A backend body that is no JSON is wrapped as { message: text }.
C12_WitnessWrappedText ==
    /\ proxyCall # NoCall
    /\ proxyResp.status = 200
    /\ proxyResp.data = MessageObject(TextHtml)


(***************************************************************************)
(* A home without readings: the loader and getDevices together             *)
(***************************************************************************)
\* Responses of the devices endpoint for a home without readings, and one
\* that carries a device.
EmptyHomeResponses ==
    {r \in BackendResponses : Len(r.devices) = 0}
    \cup {[ok |-> TRUE, hasDevices |-> TRUE,
           devices |-> <<RawDevice(AC, Num(12345), [k |-> "iso", ms |-> 0],
                                   [k |-> "undefined", b |-> FALSE], Undefined)>>]}

\* Files made of a line of home 1, the line of home 2 and the empty line.
EmptyHomeFiles ==
    {f \in CsvFiles :
        \A i \in 1..Len(f.rows) :
            \/ f.rows[i].home \in {Home2Padded, <<>>}
            \/ f.rows[i].time = <<"0", "6", ":", "0", "0">>}

InitEmptyHome ==
    /\ csv \in EmptyHomeFiles
    /\ InitEnergyIdle
    /\ now = 0
    /\ backend \in EmptyHomeResponses
    /\ devCall = NoCall
    /\ devices = <<>>
    /\ InitCoachIdle
    /\ InitProxyIdle
    /\ InitTariffIdle
    /\ InitRefreshIdle
    /\ InitForecastIdle
    /\ InitNowIdle
    /\ InitUiIdle

NextEmptyHome ==
    \/ \E readOk \in BOOLEAN, homeId \in UsageHomes, date \in {Undefined, Date1} :
           LoadDailyUsageByHour(readOk, homeId, date) /\ UNCHANGED <<deviceVars, coachVars, proxyVars, tariffVars, refreshVars, forecastVars, nowVars, uiVars>>
    \/ EnergyDone /\ UNCHANGED <<deviceVars, coachVars, proxyVars, tariffVars, refreshVars, forecastVars, nowVars, uiVars>>
    \/ GetDevices /\ UNCHANGED <<energyVars, coachVars, proxyVars, tariffVars, refreshVars, forecastVars, nowVars, uiVars>>

SpecEmptyHome == InitEmptyHome /\ [][NextEmptyHome]_vars

\* The home of the last loader call has no row in the file.
HomeHasNoReading ==
    \A i \in 1..Len(csv.rows) : ShapeRow(csv.header, csv.rows[i]).homeId # usageCall.homeId

\* The response of the devices endpoint carries no devices.
CarriesNoDevices == backend.ok /\ (~backend.hasDevices \/ backend.devices = <<>>)

\* C13: a home with zero readings yields typed zero values and no error:
\* loadDailyUsageByHour returns 24 points that are all 0, and getDevices
\* returns the empty list when the response carries no devices.
C13_EmptyHomeYieldsZeros ==
    /\ (usageCall # NoCall /\ HomeHasNoReading) =>
           /\ Len(series) = 24
           /\ \A h \in 1..24 : series[h] = [time |-> hourLabel(h - 1), kwh |-> Num(0)]
    /\ (devCall # NoCall /\ CarriesNoDevices) =>
           /\ ~devCall.threw
           /\ devices = <<>>

\* Both calls were made for a home without readings while the file holds
\* rows of another home and the response has no `devices` member.
C13_Witness ==
    /\ usageCall # NoCall
    /\ HomeHasNoReading
    /\ Len(csv.rows) > 0
    /\ energyResp.status = 200
    /\ Len(series) = 24
    /\ devCall # NoCall
    /\ backend.ok
    /\ ~backend.hasDevices


(***************************************************************************)
(* A home that is not in the reading set                                   *)
(***************************************************************************)
\* The home asked for in the last GET has no row in the file that was read.
UnknownHomeRequested ==
    /\ energyReq # NoCall
    /\ Given(energyReq.homeId)
    /\ fsOk
    /\ \A i \in 1..Len(shaped) : shaped[i].homeId # energyReq.homeId

\* C14: a request for a home identifier that is in no reading is answered
\* with a visible failure: the route does not answer 200 with an empty list,
\* and the loader does not return the all-zero series.
C14_UnknownHomeIsAVisibleFailure ==
    UnknownHomeRequested =>
        /\ energyResp.status # 200
        /\ usageCall # NoCall => series # ZeroSeries

\* The loader answers a home that is in no reading with the zero series.
C14_WitnessUnknownHomeGetsZeros ==
    /\ UnknownHomeRequested
    /\ Len(shaped) > 0
    /\ usageCall # NoCall
    /\ usageCall.homeId = Home3
    /\ energyResp.status = 200
    /\ series = ZeroSeries


(***************************************************************************)
(* The source of a device                                                  *)
(***************************************************************************)
Plug == <<"p", "l", "u", "g">>
App == <<"a", "p", "p">>

\* C15: the source of every device that getDevices returns is plug or app:
\* plug exactly when the record's source equals plug, app for a missing or
\* any other value.
C15_SourceIsPlugOrApp ==
    \A i \in Classified :
        /\ devices[i].source \in {Plug, App}
        /\ devices[i].source = Plug <=> RawOf(i).source = Plug

\* A record whose source is another string is returned as app.
C15_Witness ==
    \E i \in Classified :
        /\ RawOf(i).source = <<"w", "i", "f", "i">>
        /\ devices[i].source = App

\* A plug record and a record without source.
C15_WitnessPlug ==
    \E i \in Classified : RawOf(i).source = Plug /\ devices[i].source = Plug
C15_WitnessMissing ==
    \E i \in Classified : RawOf(i).source = Undefined /\ devices[i].source = App


(***************************************************************************)
(* Cost, and the independence of usage from the tariff                     *)
(***************************************************************************)
\* Files of the lines of the three-reading day, the line of home 2 and the
\* line with malformed numbers, under a header that has a tariff column.
TariffFiles ==
    {f \in CsvFiles :
        /\ f.header \cap {ColTariff, ColTariffAlias} # {}
        /\ \A i \in 1..Len(f.rows) :
              \/ f.rows[i].time \in {<<"0", "6", ":", "0", "0">>, <<"0", "6", ":", "3", "0">>,
                                     <<"1", "8", ":", "0", "0">>, <<"2", "3", ":", "5", "9">>}
              \/ f.rows[i].kwh = <<"a", "b", "c">>}

\* Tariff texts a reading may be changed to.
TariffTexts == {<<"0", ".", "1", "0">>, <<"0", ".", "3", "0">>, <<"0">>}

\* The file with the tariff of row i replaced.
WithTariff(file, i, text) ==
    [file EXCEPT !.rows = [file.rows EXCEPT ![i] = [file.rows[i] EXCEPT !.tariff = text]]]

\* The readings of a home and a date in what the route answers.
ReadingsOf(file, home, date) ==
    LET OfDate(r) == r.date = date
    IN  SelectSeq(EnergyGET(file, TRUE, home, Null).resp.rows, OfDate)

\* today_usage_kwh: the sum of kwh over the readings.
RECURSIVE UsageKwh(_)
UsageKwh(readings) ==
    IF readings = <<>> THEN 0
    ELSE FiniteOrZero(Head(readings).kwh) + UsageKwh(Tail(readings))

\* cost_usd(readings): the sum of kwh_i x tariff_i, in units of 1/Scale^2.
RECURSIVE CostUsd(_)
CostUsd(readings) ==
    IF readings = <<>> THEN 0
    ELSE FiniteOrZero(Head(readings).kwh) * FiniteOrZero(Head(readings).tariff)
         + CostUsd(Tail(readings))

\* The outputs of the dashboard for one file: the hourly series of the
\* loader, the usage total and the cost.
OutputsOf(file, home, date) ==
    [series |-> IF NoLength(EnergyGET(file, TRUE, home, Null).resp) THEN ZeroSeries
                ELSE SeriesFor(EnergyGET(file, TRUE, home, Null).resp.rows, date),
     usage |-> UsageKwh(ReadingsOf(file, home, date)),
     cost |-> CostUsd(ReadingsOf(file, home, date))]

\* The dashboard is computed for csv and for csv with the tariff of row i
\* changed.
CompareTariffs(i, text, home, date) ==
    /\ tariffRun = NoCall
    /\ i \in 1..Len(csv.rows)
    /\ csv.rows[i].tariff # text
    /\ tariffRun' = [row |-> i, home |-> home, date |-> date,
                     alt |-> WithTariff(csv, i, text),
                     old |-> OutputsOf(csv, home, date),
                     new |-> OutputsOf(WithTariff(csv, i, text), home, date)]
    /\ UNCHANGED csv

TariffDone ==
    /\ tariffRun # NoCall
    /\ tariffRun' = NoCall
    /\ UNCHANGED csv

InitTariff ==
    /\ csv \in TariffFiles
    /\ InitEnergyIdle
    /\ InitDevicesIdle
    /\ InitCoachIdle
    /\ InitProxyIdle
    /\ InitTariffIdle
    /\ InitRefreshIdle
    /\ InitForecastIdle
    /\ InitNowIdle
    /\ InitUiIdle

energyCallVars == <<fsOk, energyReq, shaped, energyResp, usageCall, usageAll, usageTarget, series>>

NextTariff ==
    \/ \E i \in 1..MaxRows, text \in TariffTexts, home \in {Home1, Home2}, date \in {Date1, Date2} :
           CompareTariffs(i, text, home, date)
           /\ UNCHANGED <<energyCallVars, deviceVars, coachVars, proxyVars, refreshVars, forecastVars, nowVars, uiVars>>
    \/ TariffDone /\ UNCHANGED <<energyCallVars, deviceVars, coachVars, proxyVars, refreshVars, forecastVars, nowVars, uiVars>>

SpecTariff == InitTariff /\ [][NextTariff]_vars

\* kwh and tariff of the changed row as numbers, 0 when it is not a reading
\* of the home and the date.
ChangedKwh ==
    LET r == ShapeRow(csv.header, csv.rows[tariffRun.row])
    IN  IF r.homeId = tariffRun.home /\ r.date = tariffRun.date THEN FiniteOrZero(r.kwh) ELSE 0
OldTariff == FiniteOrZero(ShapeRow(csv.header, csv.rows[tariffRun.row]).tariff)
NewTariff == FiniteOrZero(ShapeRow(tariffRun.alt.header, tariffRun.alt.rows[tariffRun.row]).tariff)

\* C16: two reading sets that differ only in the tariff of a reading have
\* the same hourly kwh series and the same usage total, and their costs
\* differ by the kwh of that reading times the change of its tariff (each
\* reading is charged at its own tariff).
C16_TariffChangesOnlyCost ==
    tariffRun # NoCall =>
        /\ tariffRun.new.series = tariffRun.old.series
        /\ tariffRun.new.usage = tariffRun.old.usage
        /\ tariffRun.new.cost - tariffRun.old.cost = ChangedKwh * (NewTariff - OldTariff)

\* The day of 1.0 kWh at 0.10 and 2.0 kWh at 0.30 costs 0.70; with the
\* second reading at 0.10 it costs 0.30, and the series is unchanged.
C16_Witness ==
    /\ tariffRun # NoCall
    /\ tariffRun.old.cost = 70 * ((Scale * Scale) \div 100)
    /\ tariffRun.new.cost = 30 * ((Scale * Scale) \div 100)
    /\ tariffRun.old.series[7].kwh = Num(Scale)
    /\ tariffRun.old.series[19].kwh = Num(2 * Scale)
    /\ tariffRun.new.series = tariffRun.old.series


(***************************************************************************)
(* Concurrent dashboard requests and a refresh of the CSV file             *)
(***************************************************************************)
\* Number of dashboard requests, and largest number of refreshes of the file.
MaxRequests == 2
MaxRefreshes == 1

\* Contents the file may be given: two readings of home 1, one other
\* reading of home 1, and a file of home 2 whose header lacks the kWh column.
RefreshFiles ==
    LET full == {ColHome, ColDate, ColTime, ColAppliance, ColKwh, ColTou, ColTariff, ColOutC, ColInC}
        L0600 == Line(Home1, Date1, <<"0", "6", ":", "0", "0">>, Fridge, <<"1", ".", "0">>, <<"O", "f", "f">>, <<"0", ".", "1", "0">>, <<"2", "0">>, <<"2", "1">>)
        L0630 == Line(Home1, Date1, <<"0", "6", ":", "3", "0">>, Fridge, <<"0", ".", "5">>, <<"O", "f", "f">>, <<"0", ".", "1", "0">>, <<"2", "0">>, <<"2", "1">>)
        L1800 == Line(Home1, Date1, <<"1", "8", ":", "0", "0">>, AC, <<"2", ".", "0">>, <<"P", "e", "a", "k">>, <<"0", ".", "3", "0">>, <<"2", "5">>, <<"2", "2">>)
        LHome2 == Line(Home2Padded, Date2, <<"2", "3", ":", "5", "9">>, ACPadded, <<"0", ".", "0", "0", "0", "4">>, <<" ", "O", "f", "f", " ">>, <<"0", ".", "1", "0">>, <<"2", "0">>, <<"2", "1">>)
    IN  {[header |-> full, rows |-> <<L0600, L1800>>],
         [header |-> full, rows |-> <<L0630>>],
         [header |-> {ColHome, ColDate, ColTime}, rows |-> <<LHome2>>]}

NoFile == [header |-> {}, rows |-> <<>>]

IdleRequest == [pc |-> "idle", homeId |-> Null, since |-> 0, text |-> NoFile, result |-> NoCall]

\* A parse that takes the header of the text read and the rows of the file
\* as it is when the response is computed
ParseTorn(text, current) == [header |-> text.header, rows |-> current.rows]

\* const rows = parseMaybeCSV(text): the rows of the text that was read
ParseRead(text, current) == text

\* What loadDailyUsageByHour(homeId, Date1) returns for a file: the rows of
\* the response and the series.
ResultOf(file, homeId) ==
    LET resp == EnergyGET(file, TRUE, homeId, Null).resp
    IN  [rows |-> resp.rows,
         series |-> IF NoLength(resp) THEN ZeroSeries ELSE SeriesFor(resp.rows, Date1)]

\* loadDailyUsageByHour: fetch(`/api/energy?homeId=...`)
StartRequest(i, homeId) ==
    /\ reqs[i].pc = "idle"
    /\ reqs' = [reqs EXCEPT ![i] = [IdleRequest EXCEPT !.pc = "fetching", !.homeId = homeId,
                                                       !.since = Len(versions)]]
    /\ UNCHANGED <<csv, versions>>

\* GET: const text = await fs.readFile(CSV_PATH, "utf8")
ReadFile(i) ==
    /\ reqs[i].pc = "fetching"
    /\ reqs' = [reqs EXCEPT ![i].pc = "read", ![i].text = csv]
    /\ UNCHANGED <<csv, versions>>

\* GET after the await, and the loader after its fetch: parse, shape,
\* filter, respond, sum per hour.
Respond(i) ==
    /\ reqs[i].pc = "read"
    /\ reqs' = [reqs EXCEPT ![i].pc = "done",
                            ![i].result = ResultOf(ParseRead(reqs[i].text, csv), reqs[i].homeId)]
    /\ UNCHANGED <<csv, versions>>

\* The ingestion process replaces the file.
Refresh(file) ==
    /\ Len(versions) <= MaxRefreshes
    /\ file # csv
    /\ csv' = file
    /\ versions' = Append(versions, file)
    /\ UNCHANGED reqs

InitRefresh ==
    /\ csv \in RefreshFiles
    /\ versions = <<csv>>
    /\ reqs = [i \in 1..MaxRequests |-> IdleRequest]
    /\ InitEnergyIdle
    /\ InitDevicesIdle
    /\ InitCoachIdle
    /\ InitProxyIdle
    /\ InitTariffIdle
    /\ InitForecastIdle
    /\ InitNowIdle
    /\ InitUiIdle

NextRefresh ==
    \/ \E i \in 1..MaxRequests :
           StartRequest(i, Home1) /\ UNCHANGED <<energyCallVars, deviceVars, coachVars, proxyVars, tariffVars, forecastVars, nowVars, uiVars>>
    \/ \E i \in 1..MaxRequests :
           ReadFile(i) /\ UNCHANGED <<energyCallVars, deviceVars, coachVars, proxyVars, tariffVars, forecastVars, nowVars, uiVars>>
    \/ \E i \in 1..MaxRequests :
           Respond(i) /\ UNCHANGED <<energyCallVars, deviceVars, coachVars, proxyVars, tariffVars, forecastVars, nowVars, uiVars>>
    \/ \E file \in RefreshFiles :
           Refresh(file) /\ UNCHANGED <<energyCallVars, deviceVars, coachVars, proxyVars, tariffVars, forecastVars, nowVars, uiVars>>

SpecRefresh == InitRefresh /\ [][NextRefresh]_vars

MaxHistoryDays == 8

\* Days are counted from an epoch; the weekday of a day is its remainder
\* by 7.  Today is day Today.
Today == 20
PastDays == (Today - MaxHistoryDays)..(Today - 1)
WeekdayNames == <<"Mon", "Tue", "Wed", "Thu", "Fri", "Sat", "Sun">>
WeekdayOf(day) == day % 7
WeekdayLabel(day) == WeekdayNames[WeekdayOf(day) + 1]

\* The total of a past day: no reading, or kwh and cost of its readings.
NoHistory == [has |-> FALSE, kwh |-> 0, cost |-> 0]
DayTotals == {NoHistory,
              [has |-> TRUE, kwh |-> Scale, cost |-> Scale \div 10],
              [has |-> TRUE, kwh |-> 3 * Scale, cost |-> (6 * Scale) \div 10]}
Histories == [PastDays -> DayTotals]

\* kg of CO2 per kWh, in thousandths
EmissionFactor == 400

RECURSIVE SumOver(_, _, _)
SumOver(h, days, field) ==
    IF days = {} THEN 0
    ELSE LET d == CHOOSE x \in days : TRUE
         IN  h[d][field] + SumOver(h, days \ {d}, field)

DaysWithHistory(h) == {d \in DOMAIN h : h[d].has}
DaysOfWeekday(h, w) == {d \in DaysWithHistory(h) : WeekdayOf(d) = w}

\* The forecast of a field for weekday w: the mean over the past days of
\* that weekday, else the mean over all past days, else 0.
ForecastOf(h, w, field) ==
    IF DaysOfWeekday(h, w) # {}
    THEN SumOver(h, DaysOfWeekday(h, w), field) \div Cardinality(DaysOfWeekday(h, w))
    ELSE IF DaysWithHistory(h) # {}
    THEN SumOver(h, DaysWithHistory(h), field) \div Cardinality(DaysWithHistory(h))
    ELSE 0

\* One ForecastPoint
ForecastPoint(h, day) ==
    [date |-> day, weekday |-> WeekdayLabel(day),
     kwh |-> ForecastOf(h, WeekdayOf(day), "kwh"),
     cost_usd |-> ForecastOf(h, WeekdayOf(day), "cost"),
     co2_kg |-> (ForecastOf(h, WeekdayOf(day), "kwh") * EmissionFactor) \div 1000]

\* The body of GET /forecast/7d/:homeId
Forecast7d(h) == [i \in 1..7 |-> ForecastPoint(h, Today + i)]

Tabs == {"kwh", "cost", "co2"}

\* The key with the kwh and cost tabs exchanged
ForecastKeySwapped(activeTab) ==
    IF activeTab = "kwh" THEN "cost_usd" ELSE IF activeTab = "cost" THEN "kwh" ELSE "co2_kg"

\* const key = activeTab === "kwh" ? "kwh" : activeTab === "cost" ? "cost_usd" : "co2_kg"
ForecastKey(activeTab) ==
    IF activeTab = "kwh" THEN "kwh" ELSE IF activeTab = "cost" THEN "cost_usd" ELSE "co2_kg"

\* (raw || []).map(d => ({ day: d.weekday, value: Number(d[key] ?? 0) }))
ForecastData(raw, activeTab) ==
    [i \in 1..Len(raw) |-> [day |-> raw[i].weekday, value |-> raw[i][ForecastKey(activeTab)]]]

\* useState of ForecastSection
MountedForecast == [raw |-> <<>>, loading |-> TRUE, error |-> Null, activeTab |-> "kwh"]

\* getForecast7d resolves with json.forecast: setRaw(f), setLoading(false)
ForecastLoaded ==
    /\ forecastUi.loading
    /\ forecastUi' = [forecastUi EXCEPT !.raw = Forecast7d(dailyHistory), !.loading = FALSE]
    /\ UNCHANGED dailyHistory

\* getForecast7d throws on !res.ok: setError(e.message), setLoading(false)
ForecastFailed ==
    /\ forecastUi.loading
    /\ forecastUi' = [forecastUi EXCEPT !.error = <<"F", "a", "i", "l", "e", "d">>, !.loading = FALSE]
    /\ UNCHANGED dailyHistory

\* homeId changes and the effect runs again: setLoading(true); setError(null)
ForecastReload ==
    /\ ~forecastUi.loading
    /\ forecastUi' = [forecastUi EXCEPT !.loading = TRUE, !.error = Null]
    /\ UNCHANGED dailyHistory

\* onClick of a tab
SetActiveTab(tab) ==
    /\ tab # forecastUi.activeTab
    /\ forecastUi' = [forecastUi EXCEPT !.activeTab = tab]
    /\ UNCHANGED dailyHistory

InitForecast ==
    /\ dailyHistory \in Histories
    /\ forecastUi = MountedForecast
    /\ csv = NoFile
    /\ InitEnergyIdle
    /\ InitDevicesIdle
    /\ InitCoachIdle
    /\ InitProxyIdle
    /\ InitTariffIdle
    /\ InitRefreshIdle
    /\ InitNowIdle
    /\ InitUiIdle

NextForecast ==
    \/ ForecastLoaded /\ UNCHANGED <<energyVars, deviceVars, coachVars, proxyVars, tariffVars, refreshVars, nowVars, uiVars>>
    \/ ForecastFailed /\ UNCHANGED <<energyVars, deviceVars, coachVars, proxyVars, tariffVars, refreshVars, nowVars, uiVars>>
    \/ ForecastReload /\ UNCHANGED <<energyVars, deviceVars, coachVars, proxyVars, tariffVars, refreshVars, nowVars, uiVars>>
    \/ \E tab \in Tabs :
           SetActiveTab(tab) /\ UNCHANGED <<energyVars, deviceVars, coachVars, proxyVars, tariffVars, refreshVars, nowVars, uiVars>>

SpecForecast == InitForecast /\ [][NextForecast]_vars

\* The chart of the kWh tab shows a loaded forecast.
KwhChartShown ==
    /\ forecastUi.raw # <<>>
    /\ forecastUi.error = Null
    /\ forecastUi.activeTab = "kwh"

ChartData == ForecastData(forecastUi.raw, forecastUi.activeTab)

HistoryOfWeekday(w) == {d \in PastDays : dailyHistory[d].has /\ WeekdayOf(d) = w}
HistoryOfAnyDay == {d \in PastDays : dailyHistory[d].has}

C18_WitnessNoHistory ==
    /\ KwhChartShown
    /\ HistoryOfAnyDay = {}
    /\ \A i \in 1..7 : ChartData[i].value = 0


(***************************************************************************)
(* NowSection                                                              *)
(***************************************************************************)
\* Largest number of fetchMetrics calls that have not settled (the interval
\* starts one every 30 seconds, whether or not the last one has settled).
MaxPending == 2

\* The keys of metricConfigs, each with the digits of its toFixed.
MetricKeys == {"current_power_kw", "today_usage_kwh", "today_cost_usd", "today_co2_kg"}
DecimalsOf(key) == IF key = "today_cost_usd" THEN 2 ELSE 1

\* Bodies of GET /dashboard/metrics/1: numbers, and for the cost and the CO2
\* also null or a missing member.
MetricsBodies ==
    [current_power_kw : {Num(0), Num(12600)},
     today_usage_kwh : {Num(0), Num(35000)},
     today_cost_usd : {Num(7500), Num(12340), [t |-> "undefined", v |-> 0]},
     today_co2_kg : {Num(14400), [t |-> "null", v |-> 0]}]

NoMetrics == [none |-> TRUE]

\* metrics?.[key] ?? 0
ValueOf(metrics, key) ==
    IF metrics = NoMetrics THEN 0
    ELSE IF metrics[key].t \in {"undefined", "null"} THEN 0
    ELSE metrics[key].v

\* Number(value).toFixed(n) for n in {1, 2}, as the number it writes
RECURSIVE Pow10(_)
Pow10(n) == IF n = 0 THEN 1 ELSE 10 * Pow10(n - 1)
ToFixedN(v, n) ==
    LET step == Scale \div Pow10(n)
    IN  ((v + (step \div 2)) \div step) * step

\* What a metric card renders: the placeholder "--", or displayValue.
Placeholder == [dashes |-> TRUE, v |-> 0]
CardOf(ui, key) ==
    IF ui.loading THEN Placeholder
    ELSE [dashes |-> FALSE, v |-> ToFixedN(ValueOf(ui.metrics, key), DecimalsOf(key))]

FailedText == <<"F", "a", "i", "l", "e", "d", " ", "t", "o", " ", "l", "o", "a", "d", " ", "d", "a", "t", "a">>

\* useState of NowSection
MountedNow == [metrics |-> NoMetrics, loading |-> TRUE, error |-> Null]

\* The try block: setMetrics(data); setError(null); and the finally block
AfterSuccess(ui, data) == [metrics |-> data, loading |-> FALSE, error |-> Null]

\* A catch block that also drops the metrics
AfterFailureClearing(ui) == [metrics |-> NoMetrics, loading |-> FALSE, error |-> FailedText]

\* The catch block: setError("Failed to load data"); and the finally block
AfterFailure(ui) == [ui EXCEPT !.loading = FALSE, !.error = FailedText]

\* setInterval(fetchMetrics, 30000) fires
StartFetch ==
    /\ nowFetch.pending < MaxPending
    /\ nowFetch' = [nowFetch EXCEPT !.pending = @ + 1]
    /\ UNCHANGED nowUi

\* getDashboardMetrics(1) resolves
FetchSucceeds(data) ==
    /\ nowFetch.pending > 0
    /\ nowUi' = AfterSuccess(nowUi, data)
    /\ nowFetch' = [pending |-> nowFetch.pending - 1, last |-> "ok", lastOk |-> data]

\* getDashboardMetrics(1) throws
FetchFails ==
    /\ nowFetch.pending > 0
    /\ nowUi' = AfterFailure(nowUi)
    /\ nowFetch' = [nowFetch EXCEPT !.pending = @ - 1, !.last = "failed"]

InitNow ==
    /\ nowUi = MountedNow
    /\ nowFetch = [pending |-> 1, last |-> "none", lastOk |-> NoMetrics]
    /\ csv = NoFile
    /\ InitEnergyIdle
    /\ InitDevicesIdle
    /\ InitCoachIdle
    /\ InitProxyIdle
    /\ InitTariffIdle
    /\ InitRefreshIdle
    /\ InitForecastIdle
    /\ InitUiIdle

NextNow ==
    \/ StartFetch /\ UNCHANGED <<energyVars, deviceVars, coachVars, proxyVars, tariffVars, refreshVars, forecastVars, uiVars>>
    \/ \E data \in MetricsBodies :
           FetchSucceeds(data) /\ UNCHANGED <<energyVars, deviceVars, coachVars, proxyVars, tariffVars, refreshVars, forecastVars, uiVars>>
    \/ FetchFails /\ UNCHANGED <<energyVars, deviceVars, coachVars, proxyVars, tariffVars, refreshVars, forecastVars, uiVars>>

SpecNow == InitNow /\ [][NextNow]_vars

\* The number a card shows for the last successfully loaded metrics, 0 when
\* none was loaded or the member is missing or null.
ExpectedValue(key) ==
    IF nowFetch.lastOk = NoMetrics THEN 0
    ELSE IF nowFetch.lastOk[key].t # "num" THEN 0
    ELSE nowFetch.lastOk[key].v

Rounds(shown, value, decimals) ==
    /\ shown % (Scale \div Pow10(decimals)) = 0
    /\ 2 * Abs(shown - value) <= Scale \div Pow10(decimals)

\* Every card renders: the placeholder until a fetch has settled, then the
\* value of the last successfully loaded metrics, 0 if there is none.
CardsRender ==
    \A key \in MetricKeys :
        /\ nowFetch.last = "none" => CardOf(nowUi, key) = Placeholder
        /\ nowFetch.last # "none" =>
              /\ ~CardOf(nowUi, key).dashes
              /\ Rounds(CardOf(nowUi, key).v, ExpectedValue(key), DecimalsOf(key))
        /\ nowFetch.last = "failed" => nowUi.error = FailedText
        /\ nowFetch.last = "ok" => nowUi.error = Null

\* A fetch that fails leaves the metrics as they were.
FailureKeepsMetrics ==
    (nowFetch'.last = "failed" /\ nowFetch'.pending < nowFetch.pending) => nowUi'.metrics = nowUi.metrics

\* C19: after any sequence of successful and failed metrics fetches every
\* metric card has a value to render: the placeholder while the first fetch
\* is pending, 0 when no metrics were ever loaded, otherwise the last
\* successfully loaded metrics; a failed fetch sets the error and leaves the
\* loaded metrics unchanged, and a successful fetch clears the error.
C19_CardsAlwaysRender == []CardsRender /\ [][FailureKeepsMetrics]_vars

\* Metrics were loaded, and then a fetch failed: the cards show the loaded
\* values under the error.
C19_Witness ==
    /\ nowFetch.last = "failed"
    /\ nowFetch.lastOk # NoMetrics
    /\ nowUi.error = FailedText
    /\ nowUi.metrics = nowFetch.lastOk
    /\ CardOf(nowUi, "today_usage_kwh").v = 35000
    /\ CardOf(nowUi, "today_cost_usd").v = 12300

\* The only fetches so far have failed: the cards show 0.
C19_WitnessNeverLoaded ==
    /\ nowFetch.last = "failed"
    /\ nowFetch.lastOk = NoMetrics
    /\ \A key \in MetricKeys : CardOf(nowUi, key) = [dashes |-> FALSE, v |-> 0]


(***************************************************************************)
(* The filters of GET /api/energy                                          *)
(***************************************************************************)
\* The shaped rows that satisfy every filter of the last request.  A
\* parameter that is absent or empty is not given.
Kept ==
    {i \in 1..Len(shaped) :
        /\ Given(energyReq.homeId) => shaped[i].homeId = energyReq.homeId
        /\ Given(energyReq.appliance) => shaped[i].appliance = energyReq.appliance}

\* The k-th kept row, in input order.
KthKept(k) == CHOOSE i \in Kept : Cardinality({j \in Kept : j <= i}) = k

\* C20: GET /api/energy returns exactly the shaped rows that satisfy every
\* filter given (home id equal to homeId, appliance equal to appliance), in
\* input order; without a parameter it returns every row, and a request for
\* a home returns no row of another home.
C20_ExactlyTheFilteredRows ==
    (energyReq # NoCall /\ fsOk) =>
        /\ energyResp.status = 200
        /\ Len(energyResp.rows) = Cardinality(Kept)
        /\ \A k \in 1..Len(energyResp.rows) : energyResp.rows[k] = JsonRow(shaped[KthKept(k)])
        /\ (~Given(energyReq.homeId) /\ ~Given(energyReq.appliance)) =>
               Len(energyResp.rows) = Len(shaped)
        /\ Given(energyReq.homeId) =>
               \A k \in 1..Len(energyResp.rows) : energyResp.rows[k].homeId = energyReq.homeId

\* A request with both parameters that keeps the second of two rows: the
\* padded row of home 2.
C20_Witness ==
    /\ energyReq # NoCall
    /\ fsOk
    /\ energyReq.homeId = Home2
    /\ energyReq.appliance = AC
    /\ Len(shaped) = 2
    /\ Kept = {2}
    /\ Len(energyResp.rows) = 1
    /\ csv.rows[2].home = Home2Padded

\* A request with the appliance only, and one without parameters.
C20_WitnessApplianceOnly ==
    /\ energyReq # NoCall
    /\ fsOk
    /\ energyReq.homeId = Null
    /\ energyReq.appliance = AC
    /\ Len(shaped) = 2
    /\ Len(energyResp.rows) = 1
C20_WitnessNoParameter ==
    /\ energyReq # NoCall
    /\ fsOk
    /\ energyReq.homeId = Null
    /\ energyReq.appliance = Null
    /\ Len(energyResp.rows) = 2


(***************************************************************************)
(* The target date of a call without a date                                *)
(***************************************************************************)
\* The last call gave no date and the home has rows.
LatestDateCall ==
    /\ usageCall # NoCall
    /\ usageCall.date = Undefined
    /\ ~NoLength(energyResp)

\* The target date is a calendar date that no row of the home is later
\* than, and the series sums the rows of exactly that date.
TargetIsLatest ==
    /\ ParseDate(usageTarget).t = "num"
    /\ \A i \in 1..Len(usageAll) :
           ParseDate(usageAll[i].date).t = "num" =>
               ParseDate(usageAll[i].date).v <= ParseDate(usageTarget).v
    /\ series = SeriesFor(usageAll, usageTarget)

\* Every row of the home carries a calendar date.
AllDatesValid == \A i \in 1..Len(usageAll) : ParseDate(usageAll[i].date).t = "num"

\* C21: called without a date, loadDailyUsageByHour takes the
\* chronologically latest date among the home's rows (as calendar dates, not
\* as strings) and sums only the rows of exactly that date.
C21_TargetIsLatestDate == LatestDateCall => TargetIsLatest

\* The same for a home whose rows all carry a calendar date.
C21_TargetIsLatestOfValidDates == (LatestDateCall /\ AllDatesValid) => TargetIsLatest

\* A home with a row of 6/15/23 and a row without a date, for which the
\* target is not the latest date.
C21_WitnessBlankDate ==
    /\ LatestDateCall
    /\ ~AllDatesValid
    /\ \E i \in 1..Len(usageAll) : usageAll[i].date = Date1
    /\ ~TargetIsLatest

\* The later date is the smaller string: 10/2/23 after 6/15/23.
C21_WitnessLaterDateSmallerString ==
    /\ LatestDateCall
    /\ Len(usageAll) = 2
    /\ usageAll[1].date = Date2
    /\ usageAll[2].date = Date1
    /\ usageTarget = Date2


(***************************************************************************)
(* The chat under submit events                                            *)
(*                                                                         *)
(* handleSubmit is the onSubmit handler of the form.  The Send button is   *)
(* disabled while isThinking or with a blank draft, but the textarea stays *)
(* editable and a submit event (form.requestSubmit(), a dispatched event)  *)
(* reaches the handler in any state.                                       *)
(***************************************************************************)
\* Submissions of one conversation.
MaxSubmits == 3

otherThanCoachVars == <<energyVars, deviceVars, proxyVars, tariffVars, refreshVars, forecastVars, nowVars, uiVars>>

\* A pending request settles, whatever its outcome.
ReplyStep == \E outcome \in Outcomes : ReplyArrives(outcome) /\ UNCHANGED otherThanCoachVars

NextChat ==
    \/ SetDraft /\ UNCHANGED otherThanCoachVars
    \/ UserTurns < MaxSubmits /\ SubmitPart005 /\ UNCHANGED otherThanCoachVars
    \/ UserTurns < MaxSubmits /\ SubmitCoachSection /\ UNCHANGED otherThanCoachVars
    \/ ReplyStep

SpecChat == InitCoach /\ [][NextChat]_vars

\* A fetch settles: it resolves, or rejects on a network failure.
SpecChatLive == SpecChat /\ WF_vars(ReplyStep)

\* assistant, user, assistant, ... from the greeting on
Alternates ==
    \A i \in 1..Len(messages) :
        messages[i].role = (IF i % 2 = 1 THEN "assistant" ELSE "user")

\* A step that appends a user message or sends a request
AcceptsSubmit ==
    \/ inflight' > inflight
    \/ /\ Len(messages') > Len(messages)
       /\ messages'[Len(messages')].role = "user"

\* C22: at most one request to the responder is in flight: while isThinking
\* a submit appends no message and sends no request, a submit with a blank
\* draft changes nothing, and the message list alternates assistant, user,
\* assistant, ... from the greeting on.
C22_OneRequestInFlight ==
    /\ [](inflight <= 1 /\ Alternates)
    /\ [][(isThinking \/ Trim(draft) = <<>>) => ~AcceptsSubmit]_vars

\* The same for the CoachSection of part_005, whose handler returns while
\* isThinking.
C22_Part005OneRequestInFlight ==
    /\ [](impl = "part_005" => (inflight <= 1 /\ Alternates))
    /\ [][(impl = "part_005" /\ (isThinking \/ Trim(draft) = <<>>)) => ~AcceptsSubmit]_vars

\* Two requests in flight and two user messages in a row, in
\* coach-section.tsx.
C22_WitnessTwoInFlight ==
    /\ impl = "coach_section"
    /\ inflight = 2
    /\ Len(messages) = 3
    /\ messages[2].role = "user"
    /\ messages[3].role = "user"

\* With only the Send button submitting the form, both sources keep one
\* request in flight.
C22_SendButtonOneRequestInFlight == inflight <= 1 /\ Alternates

AssistantTurns == Cardinality({i \in 2..Len(messages) : messages[i].role = "assistant"})

\* A step keeps every message there is, and a step that settles a request
\* appends one assistant message and clears isThinking.
CompletesOne ==
    /\ Len(messages') >= Len(messages)
    /\ SubSeq(messages', 1, Len(messages)) = messages
    /\ inflight' < inflight =>
           /\ inflight' = inflight - 1
           /\ messages' = Append(messages, messages'[Len(messages')])
           /\ messages'[Len(messages')].role = "assistant"
           /\ Len(messages'[Len(messages')].content) > 0
           /\ ~isThinking'

\* C23: every accepted chat submission completes: whatever the outcome of
\* the request, exactly one assistant message is appended after the user's
\* message, no earlier message is changed or removed, and isThinking
\* returns to false.
C23_SubmissionCompletes ==
    /\ [](AssistantTurns + inflight = UserTurns)
    /\ [][CompletesOne]_vars
    /\ \A k \in 1..MaxSubmits : (UserTurns >= k) ~> (AssistantTurns >= k /\ (inflight = 0 => ~isThinking))
    /\ isThinking ~> ~isThinking

\* A submission that was answered after a failed request.
C23_Witness ==
    /\ chatResult # NoCall
    /\ chatResult.outcome = "network_failure"
    /\ UserTurns = 2
    /\ AssistantTurns = 2
    /\ inflight = 0
    /\ ~isThinking


(***************************************************************************)
(* DevicesSection: the fetch effect and handleAddDevice                    *)
(***************************************************************************)
\* Changes of the homeId prop, and devices added by hand.
MaxHomeChanges == 2
MaxAdds == 1

SectionHomes == {1, 2, 3}

\* A Device as getDevices returns it
Device(name, powerLabel, status, source, lastSeen) ==
    [name |-> name, powerLabel |-> powerLabel, status |-> status, source |-> source,
     lastSeen |-> lastSeen]

\* The status of a device, as a string of the page
Online == <<"online">>
Offline == <<"offline">>
Unknown == <<"unknown">>

Lamp == <<"L", "a", "m", "p">>
Tv == <<"T", "V">>
FiveWatts == <<"5", " ", "W">>
Seen == <<"2", "0", "2", "3">>

\* What getDevices(homeId) resolves to
DevicesOfHome(h) ==
    CASE h = 1 -> <<Device(Fridge, Dash, Online, Plug, Seen)>>
      [] h = 2 -> <<Device(AC, FiveWatts, Offline, App, Undefined), Device(Tv, Dash, Unknown, App, Seen)>>
      [] OTHER -> <<>>

\* e?.message ?? "Failed to load devices"
LoadFailedText == <<"F", "a", "i", "l", "e", "d", " ", "t", "o", " ", "l", "o", "a", "d", " ", "d", "e", "v", "i", "c", "e", "s">>
RejectReasons == {Undefined, <<"H", "T", "T", "P", " ", "5", "0", "0">>}

\* The effect of [homeId] has run up to its await: setLoading(true),
\* setError(null), getDevices(homeId) pending.
FetchOf(h) == [homeId |-> h, ignore |-> FALSE, state |-> "pending"]

MountedSection(h) == [homeId |-> h, devices |-> <<>>, loading |-> TRUE, error |-> Null]

\* An effect without a cleanup
NoCleanup(fetches) == fetches

\* The cleanup of the previous run of the effect: ignore = true
Cleanup(fetches) == [i \in 1..Len(fetches) |-> [fetches[i] EXCEPT !.ignore = TRUE]]

\* homeId changes: the cleanup of the last run, then the effect again
ChangeHome(h) ==
    /\ secUi # NoCall
    /\ h # secUi.homeId
    /\ Len(secFetches) <= MaxHomeChanges
    /\ secUi' = [secUi EXCEPT !.homeId = h, !.loading = TRUE, !.error = Null]
    /\ secFetches' = Append(Cleanup(secFetches), FetchOf(h))
    /\ secAdded' = <<>>
    /\ UNCHANGED <<modalUi, modalFetches, nowRuns, nowMounted, signup>>

\* getDevices resolves: if (!ignore) setDevices(data); finally if (!ignore) setLoading(false)
FetchResolves(i) ==
    /\ secUi # NoCall
    /\ i \in 1..Len(secFetches)
    /\ secFetches[i].state = "pending"
    /\ secFetches' = [secFetches EXCEPT ![i].state = "ok"]
    /\ secUi' = IF secFetches[i].ignore THEN secUi
                ELSE [secUi EXCEPT !.devices = DevicesOfHome(secFetches[i].homeId), !.loading = FALSE]
    /\ UNCHANGED <<secAdded, modalUi, modalFetches, nowRuns, nowMounted, signup>>

\* getDevices rejects: if (!ignore) setError(...); finally if (!ignore) setLoading(false)
FetchRejects(i, reason) ==
    /\ secUi # NoCall
    /\ i \in 1..Len(secFetches)
    /\ secFetches[i].state = "pending"
    /\ secFetches' = [secFetches EXCEPT ![i].state = "failed"]
    /\ secUi' = IF secFetches[i].ignore THEN secUi
                ELSE [secUi EXCEPT !.error = Coalesce(reason, LoadFailedText), !.loading = FALSE]
    /\ UNCHANGED <<secAdded, modalUi, modalFetches, nowRuns, nowMounted, signup>>

\* What the Add Device modal hands over: a name, the other members optional
NewDevices == {
    Device(Lamp, Undefined, Undefined, Undefined, Undefined),
    Device(Tv, FiveWatts, Online, Plug, Seen) }

\* toAdd of handleAddDevice
ToAdd(newDevice) ==
    Device(newDevice.name, Coalesce(newDevice.powerLabel, Dash), Coalesce(newDevice.status, Unknown),
           Coalesce(newDevice.source, App), newDevice.lastSeen)

\* handleAddDevice(newDevice): setDevices(prev => [...prev, toAdd])
HandleAddDevice(newDevice) ==
    /\ secUi # NoCall
    /\ Len(secAdded) < MaxAdds
    /\ secUi' = [secUi EXCEPT !.devices = Append(@, ToAdd(newDevice))]
    /\ secAdded' = Append(secAdded, ToAdd(newDevice))
    /\ UNCHANGED <<secFetches, modalUi, modalFetches, nowRuns, nowMounted, signup>>

otherThanUiVars == <<energyVars, deviceVars, coachVars, proxyVars, tariffVars, refreshVars, forecastVars, nowVars>>

InitOthersIdle ==
    /\ csv = NoFile
    /\ InitEnergyIdle
    /\ InitDevicesIdle
    /\ InitCoachIdle
    /\ InitProxyIdle
    /\ InitTariffIdle
    /\ InitRefreshIdle
    /\ InitForecastIdle
    /\ InitNowIdle

InitSection ==
    /\ \E h \in SectionHomes :
           /\ secUi = MountedSection(h)
           /\ secFetches = <<FetchOf(h)>>
    /\ secAdded = <<>>
    /\ InitModalIdle
    /\ InitRunsIdle
    /\ InitSignUpIdle
    /\ InitOthersIdle

NextSection ==
    \/ \E h \in SectionHomes : ChangeHome(h) /\ UNCHANGED otherThanUiVars
    \/ \E i \in 1..(MaxHomeChanges + 2) : FetchResolves(i) /\ UNCHANGED otherThanUiVars
    \/ \E i \in 1..(MaxHomeChanges + 2), reason \in RejectReasons :
           FetchRejects(i, reason) /\ UNCHANGED otherThanUiVars

SpecSection == InitSection /\ [][NextSection]_vars

\* The same with devices added by hand
NextSectionAdd ==
    \/ NextSection
    \/ \E newDevice \in NewDevices : HandleAddDevice(newDevice) /\ UNCHANGED otherThanUiVars

SpecSectionAdd == InitSection /\ [][NextSectionAdd]_vars

\* The run of the effect for the current homeId
LatestFetch == secFetches[Len(secFetches)]

AllSettled == \A i \in 1..Len(secFetches) : secFetches[i].state # "pending"

\* The cards the section renders: none while loading or with an error
ShownDevices == IF ~secUi.loading /\ secUi.error = Null THEN secUi.devices ELSE <<>>

\* The state is that of the fetch for the current homeId.
StateOfLatest ==
    /\ LatestFetch.homeId = secUi.homeId
    /\ LatestFetch.state = "pending" => secUi.loading /\ secUi.error = Null
    /\ LatestFetch.state = "ok" =>
           /\ ~secUi.loading
           /\ secUi.error = Null
           /\ secUi.devices = DevicesOfHome(secUi.homeId)
    /\ LatestFetch.state = "failed" =>
           /\ ~secUi.loading
           /\ secUi.error # Null
           /\ ShownDevices = <<>>

\* A superseded fetch that settles writes nothing.
SupersededWritesNothing ==
    \A i \in 1..Len(secFetches) :
        (secFetches[i].ignore /\ secFetches[i].state = "pending" /\ secFetches'[i].state # "pending")
            => secUi' = secUi

AddedRemain ==
    /\ Len(secUi.devices) >= Len(secAdded)
    /\ SubSeq(secUi.devices, Len(secUi.devices) - Len(secAdded) + 1, Len(secUi.devices)) = secAdded

\* A step that adds a device appends one device with its defaults and
\* leaves the others as they were.
AppendsOne ==
    Len(secAdded') > Len(secAdded) =>
        /\ Len(secUi'.devices) = Len(secUi.devices) + 1
        /\ SubSeq(secUi'.devices, 1, Len(secUi.devices)) = secUi.devices
        /\ LET d == secUi'.devices[Len(secUi'.devices)]
           IN  /\ d.powerLabel # Undefined
               /\ d.status \in {Online, Offline, Unknown}
               /\ d.source \in {Plug, App}
               /\ \E n \in NewDevices :
                      /\ d.name = n.name
                      /\ n.powerLabel = Undefined => d.powerLabel = Dash
                      /\ n.status = Undefined => d.status = Unknown
                      /\ n.source = Undefined => d.source = App

\* C27: handleAddDevice appends exactly one device to the end of the list,
\* with powerLabel defaulting to an em dash, status to unknown and source to
\* app, and leaves the existing devices and their order unchanged; the added
\* device remains in the list while homeId does not change, also when a
\* fetch is in flight at the time it is added.
C27_AddedDeviceRemains ==
    /\ [][AppendsOne]_vars
    /\ [](secUi # NoCall => AddedRemain)

\* The appending alone
C27_AppendsOneWithDefaults == [][AppendsOne]_vars

\* A device was added while the fetch was in flight, and the response
\* replaced the list.
C27_WitnessAddedDeviceLost ==
    /\ secUi # NoCall
    /\ Len(secFetches) = 1
    /\ secFetches[1].state = "ok"
    /\ Len(secAdded) = 1
    /\ ~AddedRemain


(***************************************************************************)
(* DeviceDetailsModal: the stats effect                                    *)
(***************************************************************************)
\* Runs of the effect of one modal.
MaxEffectRuns == 4

\* device?.name of the device prop: null for no device.
ModalDevices == {Null, Fridge, AC}

\* What getDeviceStats(homeId, name) resolves to
StatsOf(name) == <<"stats of">> \o name

MountedModal == [open |-> FALSE, device |-> Null, stats |-> Null, loading |-> FALSE]

\* load() up to its await: setStats(null) and return, or setLoading(true)
Load(ui) ==
    IF ~ui.open \/ ui.device = Null
    THEN [ui EXCEPT !.stats = Null]
    ELSE [ui EXCEPT !.loading = TRUE]

\* The effect of [open, homeId, device?.name]: the cleanup of the last run,
\* then load()
RunEffect(ui) ==
    /\ Len(modalFetches) < MaxEffectRuns
    /\ modalUi' = Load(ui)
    /\ modalFetches' =
          IF ~ui.open \/ ui.device = Null
          THEN Cleanup(modalFetches)
          ELSE Append(Cleanup(modalFetches), [device |-> ui.device, ignore |-> FALSE, state |-> "pending"])

\* The props change: the modal is opened or closed, or another device is
\* selected.
SetProps(open, device) ==
    /\ modalUi # NoCall
    /\ open # modalUi.open \/ device # modalUi.device
    /\ RunEffect([modalUi EXCEPT !.open = open, !.device = device])
    /\ UNCHANGED <<secUi, secFetches, secAdded, nowRuns, nowMounted, signup>>

\* getDeviceStats settles: if (!ignore) setStats(s or null); if (!ignore) setLoading(false)
StatsSettle(i, ok) ==
    /\ modalUi # NoCall
    /\ i \in 1..Len(modalFetches)
    /\ modalFetches[i].state = "pending"
    /\ modalFetches' = [modalFetches EXCEPT ![i].state = IF ok THEN "ok" ELSE "failed"]
    /\ modalUi' = IF modalFetches[i].ignore THEN modalUi
                  ELSE [modalUi EXCEPT !.stats = IF ok THEN StatsOf(modalFetches[i].device) ELSE Null,
                                       !.loading = FALSE]
    /\ UNCHANGED <<secUi, secFetches, secAdded, nowRuns, nowMounted, signup>>

InitModal ==
    /\ modalUi = MountedModal
    /\ modalFetches = <<>>
    /\ InitSectionIdle
    /\ InitRunsIdle
    /\ InitSignUpIdle
    /\ InitOthersIdle

NextModal ==
    \/ \E open \in BOOLEAN, device \in ModalDevices : SetProps(open, device) /\ UNCHANGED otherThanUiVars
    \/ \E i \in 1..MaxEffectRuns, ok \in BOOLEAN : StatsSettle(i, ok) /\ UNCHANGED otherThanUiVars

SpecModal == InitModal /\ [][NextModal]_vars

\* A stats fetch that has not been superseded is in flight.
LiveFetch == \E i \in 1..Len(modalFetches) : ~modalFetches[i].ignore /\ modalFetches[i].state = "pending"

\* The stats a card shows: none while loading
ShownStats == IF modalUi.loading THEN Null ELSE modalUi.stats

\* C25: loading is true only while a stats fetch that has not been
\* superseded is in flight: once no such fetch is outstanding loading is
\* false, and the stats shown are those of the selected device or null.
C25_LoadingOnlyWhileFetching ==
    modalUi # NoCall =>
        /\ modalUi.loading => LiveFetch
        /\ ShownStats \in {Null, StatsOf(modalUi.device)}

\* The stats shown are those of the selected device or null.
C25_StatsOfSelectedDevice ==
    modalUi # NoCall => ShownStats \in {Null, StatsOf(modalUi.device)}

\* The modal was closed while its fetch was in flight, the fetch has
\* settled, and loading is still true.
C25_WitnessLoadingStuck ==
    /\ modalUi # NoCall
    /\ ~modalUi.open
    /\ Len(modalFetches) = 1
    /\ modalFetches[1].state = "ok"
    /\ modalUi.loading


(***************************************************************************)
(* NowSection: overlapping fetches and unmounting                          *)
(***************************************************************************)
\* fetchMetrics calls of one mounted NowSection.
MaxFetches == 3

\* Two bodies of GET /dashboard/metrics/1 that differ in the power.
RaceBodies == {b \in MetricsBodies :
                  /\ b.today_usage_kwh = Num(35000)
                  /\ b.today_cost_usd = Num(7500)
                  /\ b.today_co2_kg = Num(14400)}

PendingRun == [state |-> "pending", data |-> NoMetrics]

otherUiVars == <<secUi, secFetches, secAdded, modalUi, modalFetches, signup>>
otherThanNowVars == <<energyVars, deviceVars, coachVars, proxyVars, tariffVars, refreshVars, forecastVars>>

\* The interval fires: fetchMetrics() is called again
IntervalFires ==
    /\ nowMounted
    /\ Len(nowRuns) < MaxFetches
    /\ nowRuns' = Append(nowRuns, PendingRun)
    /\ UNCHANGED <<nowUi, nowFetch, nowMounted>>

\* getDashboardMetrics(1) of the i-th call resolves: the try and finally
\* blocks, with no test of the call being the latest or of the component
\* being mounted
RunResolves(i, data) ==
    /\ i \in 1..Len(nowRuns)
    /\ nowRuns[i].state = "pending"
    /\ nowRuns' = [nowRuns EXCEPT ![i] = [state |-> "ok", data |-> data]]
    /\ nowUi' = AfterSuccess(nowUi, data)
    /\ UNCHANGED <<nowFetch, nowMounted>>

\* getDashboardMetrics(1) of the i-th call throws: the catch and finally blocks
RunRejects(i) ==
    /\ i \in 1..Len(nowRuns)
    /\ nowRuns[i].state = "pending"
    /\ nowRuns' = [nowRuns EXCEPT ![i].state = "failed"]
    /\ nowUi' = AfterFailure(nowUi)
    /\ UNCHANGED <<nowFetch, nowMounted>>

\* The cleanup of the effect: clearInterval(interval)
Unmount ==
    /\ nowMounted
    /\ nowMounted' = FALSE
    /\ UNCHANGED <<nowUi, nowFetch, nowRuns>>

InitRuns ==
    /\ nowUi = MountedNow
    /\ nowFetch = NoCall
    /\ nowRuns = <<PendingRun>>
    /\ nowMounted = TRUE
    /\ InitSectionIdle
    /\ InitModalIdle
    /\ InitSignUpIdle
    /\ csv = NoFile
    /\ InitEnergyIdle
    /\ InitDevicesIdle
    /\ InitCoachIdle
    /\ InitProxyIdle
    /\ InitTariffIdle
    /\ InitRefreshIdle
    /\ InitForecastIdle

NextRuns ==
    \/ IntervalFires /\ UNCHANGED <<otherThanNowVars, otherUiVars>>
    \/ \E i \in 1..MaxFetches, data \in RaceBodies :
           RunResolves(i, data) /\ UNCHANGED <<otherThanNowVars, otherUiVars>>
    \/ \E i \in 1..MaxFetches : RunRejects(i) /\ UNCHANGED <<otherThanNowVars, otherUiVars>>
    \/ Unmount /\ UNCHANGED <<otherThanNowVars, otherUiVars>>

SpecRuns == InitRuns /\ [][NextRuns]_vars

RunsSettled == \A i \in 1..Len(nowRuns) : nowRuns[i].state # "pending"

SuccessfulRuns == {i \in 1..Len(nowRuns) : nowRuns[i].state = "ok"}

\* The most recently issued call that succeeded
LatestSuccessful == CHOOSE i \in SuccessfulRuns : \A j \in SuccessfulRuns : j <= i

\* C26: after all outstanding fetches of NowSection have settled the
\* metrics displayed are those of the most recently issued successful fetch
\* (a slower response of an older fetch never overwrites a newer one), and
\* no state is written after the component is unmounted.
C26_LatestFetchWins ==
    /\ []((RunsSettled /\ SuccessfulRuns # {}) => nowUi.metrics = nowRuns[LatestSuccessful].data)
    /\ [][~nowMounted => nowUi' = nowUi]_vars

\* The first call resolved after the second with other metrics, and its
\* metrics are displayed.
C26_WitnessOlderOverwrites ==
    /\ Len(nowRuns) = 2
    /\ RunsSettled
    /\ SuccessfulRuns = {1, 2}
    /\ nowRuns[1].data # nowRuns[2].data
    /\ nowUi.metrics = nowRuns[1].data

\* A call settled after the unmounting and set the state.
C26_WitnessWriteAfterUnmount ==
    /\ ~nowMounted
    /\ Len(nowRuns) = 1
    /\ nowRuns[1].state = "failed"
    /\ nowUi.error = FailedText


(***************************************************************************)
(* SignUpForm: handleSignUp and handleVerify                               *)
(***************************************************************************)
\* Submissions of one form.
MaxAttempts == 4

\* result.user.id of a completed sign-up
Users == {"user_1", "user_2"}

\* The form after mounting.  `at` is the await a handler is suspended at,
\* `user` the user of the completed sign-up, `assign` and `assignUser` the
\* state and the userId of the last POST /api/assign-home-id.
MountedSignUp(isLoaded) ==
    [isLoaded |-> isLoaded, pendingVerification |-> FALSE, isLoading |-> FALSE, error |-> FALSE,
     at |-> "idle", complete |-> FALSE, user |-> "none", assign |-> "none", assignUser |-> "none",
     active |-> FALSE, redirected |-> FALSE, attempts |-> 0]

\* The catch and finally blocks
Caught(s) == [s EXCEPT !.error = TRUE, !.isLoading = FALSE, !.at = "idle"]

\* The finally block alone
Finished(s) == [s EXCEPT !.isLoading = FALSE, !.at = "idle"]

\* handleSignUp or handleVerify up to its first await
Submit ==
    /\ signup # NoCall
    /\ signup.at = "idle"
    /\ ~signup.redirected
    /\ signup.attempts < MaxAttempts
    /\ signup' = IF ~signup.isLoaded THEN [signup EXCEPT !.attempts = @ + 1]
                 ELSE [signup EXCEPT !.isLoading = TRUE, !.error = FALSE, !.attempts = @ + 1,
                                     !.complete = FALSE, !.user = "none", !.assign = "none",
                                     !.assignUser = "none",
                                     !.at = IF signup.pendingVerification THEN "attempt" ELSE "create"]

\* useSignUp() has loaded
ClerkLoads ==
    /\ signup # NoCall
    /\ ~signup.isLoaded
    /\ signup' = [signup EXCEPT !.isLoaded = TRUE]

\* signUp.create or signUp.attemptEmailAddressVerification settles; with
\* status complete the assignment request is issued
SignUpSettles(result, user) ==
    /\ signup # NoCall
    /\ signup.at \in {"create", "attempt"}
    /\ signup' =
          CASE result = "throws" -> Caught(signup)
            [] result = "complete" -> [signup EXCEPT !.complete = TRUE, !.user = user, !.assign = "issued",
                                                      !.assignUser = user, !.at = "assign"]
            [] OTHER -> IF signup.at = "create" THEN [signup EXCEPT !.at = "prepare"]
                        ELSE Finished(signup)

\* await fetch("/api/assign-home-id", ...): fetch rejects on a network
\* failure only, and the response is not looked at
AssignSettled(s, result) ==
    IF result = "network_failure" THEN Caught([s EXCEPT !.assign = result])
    ELSE [s EXCEPT !.assign = result, !.at = "activate"]

AssignSettles(result) ==
    /\ signup # NoCall
    /\ signup.at = "assign"
    /\ signup' = AssignSettled(signup, result)

\* await setActive(...); router.push("/")
SetActiveSettles(ok) ==
    /\ signup # NoCall
    /\ signup.at = "activate"
    /\ signup' = IF ok THEN Finished([signup EXCEPT !.active = TRUE, !.redirected = TRUE])
                 ELSE Caught(signup)

\* await signUp.prepareEmailAddressVerification(...); setPendingVerification(true)
PrepareSettles(ok) ==
    /\ signup # NoCall
    /\ signup.at = "prepare"
    /\ signup' = IF ok THEN Finished([signup EXCEPT !.pendingVerification = TRUE])
                 ELSE Caught(signup)

SignUpResults == {"complete", "missing_requirements", "throws"}
AssignResults == {"ok", "error_status", "network_failure"}

otherThanSignUpVars == <<secUi, secFetches, secAdded, modalUi, modalFetches, nowRuns, nowMounted>>

InitSignUp ==
    /\ \E isLoaded \in BOOLEAN : signup = MountedSignUp(isLoaded)
    /\ InitSectionIdle
    /\ InitModalIdle
    /\ InitRunsIdle
    /\ InitOthersIdle

NextSignUp ==
    \/ Submit /\ UNCHANGED <<otherThanUiVars, otherThanSignUpVars>>
    \/ ClerkLoads /\ UNCHANGED <<otherThanUiVars, otherThanSignUpVars>>
    \/ \E result \in SignUpResults, user \in Users : SignUpSettles(result, user) /\ UNCHANGED <<otherThanUiVars, otherThanSignUpVars>>
    \/ \E result \in AssignResults : AssignSettles(result) /\ UNCHANGED <<otherThanUiVars, otherThanSignUpVars>>
    \/ \E ok \in BOOLEAN : SetActiveSettles(ok) /\ UNCHANGED <<otherThanUiVars, otherThanSignUpVars>>
    \/ \E ok \in BOOLEAN : PrepareSettles(ok) /\ UNCHANGED <<otherThanUiVars, otherThanSignUpVars>>

SpecSignUp == InitSignUp /\ [][NextSignUp]_vars

\* The session is activated or the user redirected in this step.
Activates == (signup'.active /\ ~signup.active) \/ (signup'.redirected /\ ~signup.redirected)

\* C28: the session is activated and the user redirected only after the
\* sign-up or the verification reported complete and after the home-id
\* assignment was issued and succeeded, in that order; a sign-up that is not
\* complete moves to the verification step without a redirect, and
\* isLoading is false after every attempt.
C28_RedirectAfterAssignment ==
    /\ [][Activates => (signup.complete /\ signup.assign = "ok" /\ signup.assignUser = signup.user
                         /\ signup'.active /\ signup'.redirected)]_vars
    /\ [][(signup.at = "prepare" /\ signup'.pendingVerification) => ~signup'.redirected]_vars
    /\ []((signup # NoCall /\ signup.at = "idle") => ~signup.isLoading)

\* The same with an assignment that was answered, whatever the answer.
C28_RedirectAfterAssignmentAnswered ==
    /\ [][Activates => (signup.complete /\ signup.assign \in {"ok", "error_status"}
                         /\ signup.assignUser = signup.user
                         /\ signup'.active /\ signup'.redirected)]_vars
    /\ [][(signup.at = "prepare" /\ signup'.pendingVerification) => ~signup'.redirected]_vars
    /\ []((signup # NoCall /\ signup.at = "idle") => ~signup.isLoading)

\* Redirected although the assignment was answered with an error status.
C28_WitnessRedirectAfterFailedAssignment ==
    /\ signup # NoCall
    /\ signup.redirected
    /\ signup.active
    /\ signup.assign = "error_status"


(***************************************************************************)
(* The status of a device as time passes                                   *)
(***************************************************************************)
\* online, then unknown, then offline
StatusRank(status) ==
    CASE status = "online" -> 1
      [] status = "unknown" -> 2
      [] status = "offline" -> 3

\* The records of the backend's answer that carry no boolean online flag
Unflagged ==
    {i \in 1..Len(DevicesOrEmpty(backend)) : DevicesOrEmpty(backend)[i].is_online.k # "boolean"}

\* Two calls of getDevices that got the same records, the second one later.
LaterCall ==
    /\ devCall # NoCall
    /\ devCall' # NoCall
    /\ ~devCall.threw
    /\ ~devCall'.threw
    /\ devCall'.now > devCall.now

\* C29: for a record without a boolean online flag and with a fixed
\* last-seen timestamp the status that getDevices computes only moves
\* forward as time advances: online, then unknown, then offline.
C29_StatusOnlyMovesForward ==
    [][LaterCall => \A i \in Unflagged :
                      StatusRank(devices[i].status) <= StatusRank(devices'[i].status)]_vars

\* A record last seen at instant 0 that a call after more than 72 hours
\* finds offline, and one that a call between 24 and 72 hours finds unknown.
C29_Witness ==
    /\ devCall # NoCall
    /\ ~devCall.threw
    /\ devCall.now > Ms72h
    /\ \E i \in Unflagged :
           /\ DevicesOrEmpty(backend)[i].last_seen_iso = [k |-> "iso", ms |-> 0]
           /\ devices[i].status = "offline"

C29_WitnessUnknown ==
    /\ devCall # NoCall
    /\ ~devCall.threw
    /\ devCall.now > Ms24h
    /\ \E i \in Unflagged :
           /\ DevicesOrEmpty(backend)[i].last_seen_iso = [k |-> "iso", ms |-> 0]
           /\ devices[i].status = "unknown"

=============================================================================
